---------------------------- MODULE Spec2Model ----------------------------
(***************************************************************************)
(* Model of the incremental CUR-to-Parquet synchronisation pipeline of     *)
(* src/y-new.py: main -> process_cur_files -> _process_account ->          *)
(* _process_manifest -> _process_data_file / _cleanup_old_files /          *)
(* update_processed_manifest, run against a source object store, a         *)
(* destination object store and the processedfiles ledger table.           *)
(*                                                                         *)
(* Object keys, partitions and file names are Python strings and are kept  *)
(* as strings here; split, startswith and the path templates are computed  *)
(* character by character as the code computes them.                       *)
(***************************************************************************)
EXTENDS Integers, Sequences, FiniteSets, TLC

(***************************************************************************)
(* Bounds of the model.                                                    *)
(***************************************************************************)
\* number of times the script is started in one behaviour
MaxRuns == 2
\* number of external rewrites of a manifest by the report producer
MaxRewrites == 1
\* number of transient failures of a store or database call
MaxFaults == 1

(***************************************************************************)
(* Python values.  An Optional value is the empty tuple (None) or a        *)
(* one-element tuple.                                                      *)
(***************************************************************************)
None == << >>
Some(v) == << v >>
IsNone(o) == o = << >>
TheVal(o) == o[1]

Abs(i) == IF i < 0 THEN -i ELSE i

\* str.startswith
StartsWith(s, p) == Len(s) >= Len(p) /\ SubSeq(s, 1, Len(p)) = p

\* str.endswith
EndsWith(s, p) == Len(s) >= Len(p) /\ SubSeq(s, Len(s) - Len(p) + 1, Len(s)) = p

\* index of the first occurrence of the character c in s at or after i, 0 if none
RECURSIVE FindChar(_, _, _)
FindChar(s, c, i) ==
    IF i > Len(s) THEN 0
    ELSE IF SubSeq(s, i, i) = c THEN i
    ELSE FindChar(s, c, i + 1)

\* str.split(c): the list of the pieces of s between occurrences of c
RECURSIVE Split(_, _)
Split(s, c) ==
    LET i == FindChar(s, c, 1)
    IN  IF i = 0 THEN << s >>
        ELSE << SubSeq(s, 1, i - 1) >> \o Split(SubSeq(s, i + 1, Len(s)), c)

\* str.split(c, n): at most n splits, the rest is left in the last piece
RECURSIVE SplitMax(_, _, _)
SplitMax(s, c, n) ==
    LET i == FindChar(s, c, 1)
    IN  IF n = 0 \/ i = 0 THEN << s >>
        ELSE << SubSeq(s, 1, i - 1) >> \o SplitMax(SubSeq(s, i + 1, Len(s)), c, n - 1)

\* next(p for p in parts if pred(p)): the first element with the prefix,
\* None when the generator is exhausted (Python raises StopIteration)
RECURSIVE FirstWithPrefix(_, _)
FirstWithPrefix(parts, p) ==
    IF parts = << >> THEN None
    ELSE IF StartsWith(parts[1], p) THEN Some(parts[1])
    ELSE FirstWithPrefix(Tail(parts), p)

Range(f) == { f[i] : i \in DOMAIN f }


(***************************************************************************)
(* The exports table: the account rows returned by DBHandler.get_accounts. *)
(* An unset report name is NULL (None).                                    *)
(***************************************************************************)
Acct1 == [account_id |-> "111", name |-> "A", bucket |-> "b1", prefix |-> "cur",
          hourly_export |-> Some("hr"), daily_export |-> Some("dy"),
          monthly_export |-> None]
Acct2 == [account_id |-> "222", name |-> "B", bucket |-> "b2", prefix |-> "cur",
          hourly_export |-> Some("hr"), daily_export |-> Some("dy"),
          monthly_export |-> None]
Acct3 == [account_id |-> "333", name |-> "C", bucket |-> "b3", prefix |-> "cur",
          hourly_export |-> None, daily_export |-> None,
          monthly_export |-> None]
Acct4 == [account_id |-> "444", name |-> "D", bucket |-> "b4", prefix |-> "cur",
          hourly_export |-> None, daily_export |-> None,
          monthly_export |-> Some("mo")]
ExportsTable == << Acct1, Acct2, Acct3, Acct4 >>

\* datetime.now().strftime('%Y-%m') of the model's runs
CurrentPeriod == "2025-06"

(***************************************************************************)
(* The source object stores.  Data objects do not change during a          *)
(* behaviour; the manifests are rewritten by the report producer.          *)
(***************************************************************************)
K1 == "cur/hr/data/BILLING_PERIOD=2025-06/f1.csv.gz"
K2 == "cur/hr/data/BILLING_PERIOD=2025-06/f2.csv.gz"
K3 == "cur/hr/data/BILLING_PERIOD=2025-06/f3.parquet"
K4 == "cur/hr/data/BILLING_PERIOD=2025-06/f4.csv.gz"
K5 == "cur/hr/data/f5.csv.gz"
K7 == "cur/hr/data/BILLING_PERIOD=2025-07/g1.csv.gz"
K0 == "cur/hr/data/BILLING_PERIOD=2025-05/e1.parquet"
KD == "cur/dy/data/BILLING_PERIOD=2025-06/d1.parquet"

\* the content of the data objects: gzip CSV that converts, gzip CSV that is
\* corrupt, or Parquet bytes; a key that is not listed does not exist
SourceData ==
    << "b1", K1 >> :> "csv" @@ << "b1", K2 >> :> "corrupt" @@
    << "b1", K3 >> :> "parquet" @@ << "b1", K5 >> :> "csv" @@
    << "b1", K7 >> :> "csv" @@ << "b1", KD >> :> "parquet" @@
    << "b1", K0 >> :> "parquet" @@
    << "b2", K1 >> :> "csv"

\* the immediate sub-directories of the metadata directories, in the order the
\* store lists them (ascending by key); the monthly report of account 444 was
\* moved from date-range directories to BILLING_PERIOD= partitions
MetadataDirs ==
    << "b1", "cur/hr/metadata/" >> :>
        << "cur/hr/metadata/BILLING_PERIOD=2025-05/",
           "cur/hr/metadata/BILLING_PERIOD=2025-06/",
           "cur/hr/metadata/BILLING_PERIOD=2025-07/" >> @@
    << "b1", "cur/dy/metadata/" >> :>
        << "cur/dy/metadata/BILLING_PERIOD=2025-06/" >> @@
    << "b2", "cur/hr/metadata/" >> :>
        << "cur/hr/metadata/BILLING_PERIOD=2025-06/" >> @@
    << "b4", "cur/mo/metadata/" >> :>
        << "cur/mo/metadata/20250301-20250401/",
           "cur/mo/metadata/20250401-20250501/",
           "cur/mo/metadata/20250501-20250601/",
           "cur/mo/metadata/BILLING_PERIOD=2025-06/" >>

\* the number of keys and common prefixes the store returns in one page of a
\* listing (the MaxKeys default of list_objects_v2, scaled down)
MaxKeys == 3

MA  == << "b1", "cur/hr/metadata/BILLING_PERIOD=2025-06/hr-Manifest.json" >>
MA5 == << "b1", "cur/hr/metadata/BILLING_PERIOD=2025-05/hr-Manifest.json" >>
MA7 == << "b1", "cur/hr/metadata/BILLING_PERIOD=2025-07/hr-Manifest.json" >>
MD  == << "b1", "cur/dy/metadata/BILLING_PERIOD=2025-06/dy-Manifest.json" >>
MB  == << "b2", "cur/hr/metadata/BILLING_PERIOD=2025-06/hr-Manifest.json" >>
ManifestKeys == { MA, MA5, MA7, MD, MB }

\* a manifest body: text that is not JSON, or a JSON object with a dataFiles
\* list; an entry of the list is a string, or an object with a 'key' field
InvalidJson == [syntax |-> "invalid", dataFiles |-> << >>]
Str(k) == [type |-> "str", key |-> k]
Dict(k) == [type |-> "dict", key |-> k]
Body(files) == [syntax |-> "object", dataFiles |-> files]

\* a datetime: seconds since an epoch and the tzinfo ("UTC" or "naive")
Utc(n) == [secs |-> n, tzinfo |-> "UTC"]

S3Object(n, body) == [last_modified |-> Utc(n), body |-> body]

\* the bodies the hourly 2025-06 manifest of account 111 starts with
InitBodies == { Body(<< Str(K1), Str(K3) >>), Body(<< Str(K2), Str(K1) >>),
                Body(<< Str(K5), Str(K1) >>), Body(<< Str(K4), Dict(K3) >>),
                Body(<< >>), InvalidJson }

\* the bodies the report producer rewrites it to
RewriteBodies == { Body(<< Str(K1) >>) }

\* the seconds between the previous and the new modification time
RewriteDeltas == { 0, 1, 2 }

\* objects another writer left in the destination bucket
ForeignObjects == { "hourly/ID=111/cid-cur2/data/2025-06/A.parquet",
                    "hourly/ID=111/cid-cur2/data/2025-06/0a1e33b36262fea8.parquet",
                    "hourly/ID=111/cid-cur2/data/2025-06.parquet" }

(***************************************************************************)
(* hashlib.md5(source_key.encode()).hexdigest() on the keys of the model.  *)
(***************************************************************************)
Md5Hex(s) ==
    CASE s = K1 -> "5480ade169ab88350a1e33b36262fea8"
      [] s = K2 -> "9687ef4f7918e618f4d86a69f455f429"
      [] s = K3 -> "b27c0f472dfd6631a4d5dc58bd0707a3"
      [] s = K4 -> "b80540cec0e79ed1f28d877d8da42259"
      [] s = K5 -> "fae562fd353531c2fddbf456b7acff7d"
      [] s = K7 -> "c5a229c8744f2360ef2bb88d83112383"
      [] s = K0 -> "898aeb27678e0f08bce6f60b00867f82"
      [] s = KD -> "d3c7742f7426fd3d30e07fef39f9a8ac"


(***************************************************************************)
(* String comparison and sorting, as Python orders str values (by code     *)
(* point, over the characters the model's keys use).                       *)
(***************************************************************************)
Alphabet == "-./0123456789=ABCDEFGHIJKLMNOPQRSTUVWXYZ_abcdefghijklmnopqrstuvwxyz"
Ord(c) == FindChar(Alphabet, c, 1)

\* a <= b on str
RECURSIVE StrLeq(_, _)
StrLeq(a, b) ==
    IF Len(a) = 0 THEN TRUE
    ELSE IF Len(b) = 0 THEN FALSE
    ELSE LET x == Ord(SubSeq(a, 1, 1))
             y == Ord(SubSeq(b, 1, 1))
         IN  IF x < y THEN TRUE
             ELSE IF x > y THEN FALSE
             ELSE StrLeq(SubSeq(a, 2, Len(a)), SubSeq(b, 2, Len(b)))

\* insertion of x into a list sorted in descending order
RECURSIVE InsertDesc(_, _)
InsertDesc(x, l) ==
    IF l = << >> THEN << x >>
    ELSE IF StrLeq(l[1], x) THEN << x >> \o l
    ELSE << l[1] >> \o InsertDesc(x, Tail(l))

\* sorted(l, reverse=True)
RECURSIVE SortedReverse(_)
SortedReverse(l) ==
    IF l = << >> THEN << >>
    ELSE InsertDesc(l[1], SortedReverse(Tail(l)))

\* str.lower(), character by character
ToLower ==
    "A" :> "a" @@ "B" :> "b" @@ "C" :> "c" @@ "D" :> "d" @@ "E" :> "e" @@
    "F" :> "f" @@ "G" :> "g" @@ "H" :> "h" @@ "I" :> "i" @@ "J" :> "j" @@
    "K" :> "k" @@ "L" :> "l" @@ "M" :> "m" @@ "N" :> "n" @@ "O" :> "o" @@
    "P" :> "p" @@ "Q" :> "q" @@ "R" :> "r" @@ "S" :> "s" @@ "T" :> "t" @@
    "U" :> "u" @@ "V" :> "v" @@ "W" :> "w" @@ "X" :> "x" @@ "Y" :> "y" @@
    "Z" :> "z"

RECURSIVE Lower(_)
Lower(s) ==
    IF Len(s) = 0 THEN s
    ELSE LET c == SubSeq(s, 1, 1)
         IN  (IF c \in DOMAIN ToLower THEN ToLower[c] ELSE c)
             \o Lower(SubSeq(s, 2, Len(s)))

(***************************************************************************)
(* re.search(r'BILLING_PERIOD=([^/]+)', s): the value after the first      *)
(* 'BILLING_PERIOD=' that is followed by at least one character other than *)
(* '/', up to the next '/'; None when there is no match.                   *)
(***************************************************************************)
BP == "BILLING_PERIOD="

RECURSIVE SearchBillingPeriod(_, _)
SearchBillingPeriod(s, i) ==
    IF i + Len(BP) > Len(s) THEN None
    ELSE IF SubSeq(s, i, i + Len(BP) - 1) = BP /\ SubSeq(s, i + Len(BP), i + Len(BP)) # "/"
         THEN LET j == FindChar(s, "/", i + Len(BP))
                  e == IF j = 0 THEN Len(s) ELSE j - 1
              IN  Some(SubSeq(s, i + Len(BP), e))
         ELSE SearchBillingPeriod(s, i + 1)

(***************************************************************************)
(* Module-level helpers of y-new.py.                                       *)
(***************************************************************************)
\* normalize_s3_path
normalize_s3_path(account, key) ==
    IF StartsWith(key, "s3://") THEN SplitMax(key, "/", 3)[4]
    ELSE IF StartsWith(key, account.bucket \o "/")
         THEN SubSeq(key, Len(account.bucket) + 2, Len(key))
    ELSE key

\* ensure_utc_timestamp on an Optional datetime
ensure_utc_timestamp(timestamp) ==
    IF IsNone(timestamp) THEN None
    ELSE IF TheVal(timestamp).tzinfo = "naive"
         THEN Some([TheVal(timestamp) EXCEPT !.tzinfo = "UTC"])
    ELSE timestamp

\* (a - b).total_seconds(); Python raises TypeError when exactly one of the
\* two datetimes is naive, which is the value None here
total_seconds(a, b) ==
    IF a.tzinfo = b.tzinfo THEN Some(a.secs - b.secs) ELSE None

(***************************************************************************)
(* CURParquetConverter: the pure methods.                                  *)
(***************************************************************************)
\* _extract_partition: None stands for the StopIteration of next()
extract_partition(manifest_path) ==
    LET billing_period == FirstWithPrefix(Split(manifest_path, "/"), BP)
    IN  IF IsNone(billing_period) THEN None
        ELSE Some(Split(TheVal(billing_period), "=")[2])

\* _get_data_files_from_manifest: the keys of the string entries and of the
\* objects with a 'key' field, in order; other entries are skipped
RECURSIVE get_data_files_from_manifest(_)
get_data_files_from_manifest(data_files) ==
    IF data_files = << >> THEN << >>
    ELSE LET file_path == data_files[1]
             rest == get_data_files_from_manifest(Tail(data_files))
         IN  IF file_path.type \in { "str", "dict" } THEN << file_path.key >> \o rest
             ELSE rest

\* _generate_target_filename taking the first 16 digits of the digest
generate_target_filename_head(source_key) ==
    LET file_hash == SubSeq(Md5Hex(source_key), 1, 16)
    IN  file_hash \o ".parquet"

\* _generate_target_filename
generate_target_filename(source_key) ==
    LET file_hash == SubSeq(Md5Hex(source_key), 17, 32)
    IN  file_hash \o ".parquet"

\* get_target_key taking the first 16 digits of the digest
get_target_key_head(account, report_type, source_key) ==
    LET billing_period == FirstWithPrefix(Split(source_key, "/"), BP)
        file_hash == SubSeq(Md5Hex(source_key), 1, 16)
        target_filename == file_hash \o ".parquet"
    IN  IF IsNone(billing_period) THEN None
        ELSE Some(report_type \o "/ID=" \o account.account_id \o "/cid-cur2/data/"
                  \o TheVal(billing_period) \o "/" \o target_filename)

\* _get_target_key: None stands for the StopIteration of next()
get_target_key(account, report_type, source_key) ==
    LET billing_period == FirstWithPrefix(Split(source_key, "/"), BP)
        file_hash == SubSeq(Md5Hex(source_key), 17, 32)
        target_filename == file_hash \o ".parquet"
    IN  IF IsNone(billing_period) THEN None
        ELSE Some(report_type \o "/ID=" \o account.account_id \o "/cid-cur2/data/"
                  \o TheVal(billing_period) \o "/" \o target_filename)

\* the prefix _cleanup_old_files scans
cleanup_prefix(account, report_type, partition) ==
    report_type \o "/ID=" \o account.account_id \o "/cid-cur2/data/" \o partition \o "/"

\* obj['Key'].split('/')[-1]
FileName(key) == LET parts == Split(key, "/") IN parts[Len(parts)]

\* cleanup_deletes comparing the whole key with the expected names
cleanup_deletes_by_key(listed, expected_files) ==
    { k \in listed : k \notin Range(expected_files) }

\* the keys _cleanup_old_files deletes from the objects the listing returns
cleanup_deletes(listed, expected_files) ==
    { k \in listed : FileName(k) \notin Range(expected_files) }

\* _get_manifest_key
get_manifest_key(account, report_name, partition) ==
    account.prefix \o "/" \o report_name \o "/metadata/" \o partition \o "/"
    \o report_name \o "-Manifest.json"

\* the report name an account row holds for a tier
ExportOf(account, report_tier) ==
    CASE report_tier = "hourly" -> account.hourly_export
      [] report_tier = "daily" -> account.daily_export
      [] report_tier = "monthly" -> account.monthly_export

ReportTiers == << "hourly", "daily", "monthly" >>

\* _process_account, the loop that selects the report types
RECURSIVE select_report_types(_, _, _, _)
select_report_types(account, path_filter, tier_param, i) ==
    IF i > Len(ReportTiers) THEN << >>
    ELSE LET report_tier == ReportTiers[i]
             report_name == ExportOf(account, report_tier)
             rest == select_report_types(account, path_filter, tier_param, i + 1)
         IN  IF /\ ~IsNone(path_filter)
                /\ StartsWith(TheVal(path_filter), "tier=")
                /\ SubSeq(TheVal(path_filter), 6, Len(TheVal(path_filter))) # report_tier
             THEN rest
             ELSE IF ~IsNone(tier_param) /\ TheVal(tier_param) # report_tier THEN rest
             ELSE IF ~IsNone(report_name)
                  THEN << << report_tier, TheVal(report_name) >> >> \o rest
             ELSE rest

\* _get_filtered_accounts
get_filtered_accounts(rows, payer_id, tier) ==
    LET byPayer == IF IsNone(payer_id) THEN rows
                   ELSE SelectSeq(rows, LAMBDA a : a.account_id = TheVal(payer_id))
    IN  IF IsNone(tier) THEN byPayer
        ELSE SelectSeq(byPayer, LAMBDA a : ~IsNone(ExportOf(a, TheVal(tier))))

\* every common prefix the store holds under a prefix
AllCommonPrefixes(bucket, prefix) ==
    IF << bucket, prefix >> \in DOMAIN MetadataDirs
    THEN MetadataDirs[<< bucket, prefix >>] ELSE << >>

\* one call of list_objects_v2(Bucket, Prefix, Delimiter='/') without a
\* continuation token: the first page of the listing
list_objects_v2(bucket, prefix) ==
    LET all == AllCommonPrefixes(bucket, prefix)
    IN  IF Len(all) > MaxKeys
        THEN [CommonPrefixes |-> SubSeq(all, 1, MaxKeys), IsTruncated |-> TRUE]
        ELSE [CommonPrefixes |-> all, IsTruncated |-> FALSE]

\* response.get('CommonPrefixes', [])
CommonPrefixes(bucket, prefix) == list_objects_v2(bucket, prefix).CommonPrefixes

\* not_future letting every period through
not_future_any(period) == TRUE

\* period <= current_period
not_future(period) == StrLeq(period, CurrentPeriod)

\* _list_billing_periods, the loop over the common prefixes
RECURSIVE filter_periods(_)
filter_periods(prefixes) ==
    IF prefixes = << >> THEN << >>
    ELSE LET match == SearchBillingPeriod(prefixes[1], 1)
             rest == filter_periods(Tail(prefixes))
         IN  IF ~IsNone(match) /\ not_future(TheVal(match))
             THEN << BP \o TheVal(match) >> \o rest
             ELSE rest

\* _list_billing_periods: the listing calls it issues, with their responses
list_requests(account, report_name, path_filter) ==
    LET metadata_prefix == account.prefix \o "/" \o report_name \o "/metadata/"
    IN  IF ~IsNone(path_filter) THEN << >>
        ELSE << [Bucket |-> account.bucket, Prefix |-> metadata_prefix,
                 CommonPrefixes |-> CommonPrefixes(account.bucket, metadata_prefix)] >>

\* list_billing_periods returning the partitions in the order of the listing
list_billing_periods_unsorted(account, report_name, path_filter) ==
    LET metadata_prefix == account.prefix \o "/" \o report_name \o "/metadata/"
    IN  IF ~IsNone(path_filter) THEN << TheVal(path_filter) >>
        ELSE filter_periods(CommonPrefixes(account.bucket, metadata_prefix))

\* list_billing_periods discovering the partitions whatever the path filter
list_billing_periods_unpinned(account, report_name, path_filter) ==
    LET metadata_prefix == account.prefix \o "/" \o report_name \o "/metadata/"
    IN  SortedReverse(filter_periods(CommonPrefixes(account.bucket, metadata_prefix)))

\* _list_billing_periods
list_billing_periods(account, report_name, path_filter) ==
    LET metadata_prefix == account.prefix \o "/" \o report_name \o "/metadata/"
    IN  IF ~IsNone(path_filter) THEN << TheVal(path_filter) >>
        ELSE SortedReverse(filter_periods(CommonPrefixes(account.bucket, metadata_prefix)))


(***************************************************************************)
(* json.dumps of a list of str, and json.loads of a text of that form.     *)
(***************************************************************************)
Quote == "\""

RECURSIVE JsonJoin(_)
JsonJoin(l) ==
    IF l = << >> THEN ""
    ELSE IF Len(l) = 1 THEN Quote \o l[1] \o Quote
    ELSE Quote \o l[1] \o Quote \o ", " \o JsonJoin(Tail(l))

json_dumps(l) == "[" \o JsonJoin(l) \o "]"

\* the items of '"a", "b"'; None on a syntax error
RECURSIVE JsonItems(_)
JsonItems(t) ==
    IF Len(t) < 2 \/ SubSeq(t, 1, 1) # Quote THEN None
    ELSE LET j == FindChar(t, Quote, 2)
         IN  IF j = 0 THEN None
             ELSE LET item == SubSeq(t, 2, j - 1)
                      rest == SubSeq(t, j + 1, Len(t))
                  IN  IF Len(rest) = 0 THEN Some(<< item >>)
                      ELSE IF ~StartsWith(rest, ", ") THEN None
                      ELSE LET more == JsonItems(SubSeq(rest, 3, Len(rest)))
                           IN  IF IsNone(more) THEN None
                               ELSE Some(<< item >> \o TheVal(more))

\* json.loads: Some(list of str), or None for JSONDecodeError
json_loads(t) ==
    IF Len(t) < 2 \/ SubSeq(t, 1, 1) # "[" \/ SubSeq(t, Len(t), Len(t)) # "]" THEN None
    ELSE IF Len(t) = 2 THEN Some(<< >>)
    ELSE JsonItems(SubSeq(t, 2, Len(t) - 1))

(***************************************************************************)
(* DBHandler.update_processed_manifest up to the INSERT.                   *)
(***************************************************************************)
\* manifest_partition going on with an empty partition when nothing matches
manifest_partition_default(manifest_path) ==
    LET m == SearchBillingPeriod(manifest_path, 1)
    IN  IF IsNone(m) THEN Some("") ELSE Some(BP \o TheVal(m))

\* re.search(r'BILLING_PERIOD=[^/]+', manifest_path).group(0)
manifest_partition(manifest_path) ==
    LET m == SearchBillingPeriod(manifest_path, 1)
    IN  IF IsNone(m) THEN None ELSE Some(BP \o TheVal(m))

\* str.lstrip(' ')
RECURSIVE LStrip(_)
LStrip(t) == IF Len(t) > 0 /\ SubSeq(t, 1, 1) = " " THEN LStrip(SubSeq(t, 2, Len(t))) ELSE t

RECURSIVE IsDigits(_)
IsDigits(t) ==
    IF Len(t) = 0 THEN TRUE
    ELSE FindChar("0123456789", SubSeq(t, 1, 1), 1) # 0 /\ IsDigits(SubSeq(t, 2, Len(t)))

\* json.loads of a text that holds no list: the Python type of the value and
\* its text, None for JSONDecodeError
json_scalar(t) ==
    IF t = "null" THEN Some([type |-> "NoneType", text |-> t])
    ELSE IF t \in { "true", "false" } THEN Some([type |-> "bool", text |-> t])
    ELSE IF t = "{}" THEN Some([type |-> "dict", text |-> t])
    ELSE IF Len(t) > 0 /\ IsDigits(t) THEN Some([type |-> "int", text |-> t])
    ELSE IF Len(t) >= 2 /\ SubSeq(t, 1, 1) = Quote /\ FindChar(t, Quote, 2) = Len(t)
         THEN Some([type |-> "str", text |-> SubSeq(t, 2, Len(t) - 1)])
    ELSE None

\* the values of the pieces of a list body, None when one of them is not JSON
RECURSIVE json_elements(_)
json_elements(pieces) ==
    IF pieces = << >> THEN Some(<< >>)
    ELSE LET first == json_scalar(LStrip(pieces[1]))
             rest == json_elements(Tail(pieces))
         IN  IF IsNone(first) \/ IsNone(rest) THEN None
             ELSE Some(<< TheVal(first) >> \o TheVal(rest))

\* json.loads of a text holding a scalar or a list of scalars: the Python type
\* of the value, with the elements of a list; None for JSONDecodeError
json_value(t) ==
    IF Len(t) >= 2 /\ SubSeq(t, 1, 1) = "[" /\ SubSeq(t, Len(t), Len(t)) = "]"
    THEN LET inner == SubSeq(t, 2, Len(t) - 1)
             items == IF inner = "" THEN Some(<< >>)
                      ELSE json_elements(Split(inner, ","))
         IN  IF IsNone(items) THEN None
             ELSE Some([type |-> "list", text |-> t, items |-> TheVal(items)])
    ELSE LET v == json_scalar(t)
         IN  IF IsNone(v) THEN None
             ELSE Some([type |-> TheVal(v).type, text |-> TheVal(v).text, items |-> << >>])

\* expected_files_valid accepting every list
expected_files_valid_any_list(expected_files) ==
    LET files == json_value(expected_files)
    IN  ~IsNone(files) /\ TheVal(files).type = "list"

\* the check of the expected_files text
expected_files_valid(expected_files) ==
    LET files == json_value(expected_files)
    IN  /\ ~IsNone(files)
        /\ TheVal(files).type = "list"
        /\ \A i \in DOMAIN TheVal(files).items :
              /\ TheVal(files).items[i].type = "str"
              /\ EndsWith(TheVal(files).items[i].text, ".parquet")

\* the datetime a DATETIME column hands back: the wall-clock value, no tzinfo
SqlDatetime(dt) == [dt EXCEPT !.tzinfo = "naive"]

\* upsert as INSERT IGNORE: an existing row is kept as it is
upsert_ignore(table, row) ==
    LET old == { r \in table : r.account_id = row.account_id
                               /\ r.manifest_path = row.manifest_path }
    IN  IF old = { } THEN table \cup { row } ELSE table

\* the row the INSERT ... ON DUPLICATE KEY UPDATE statement leaves in the table
upsert(table, row) ==
    LET old == { r \in table : r.account_id = row.account_id
                               /\ r.manifest_path = row.manifest_path }
    IN  IF old = { } THEN table \cup { row }
        ELSE (table \ old) \cup
             { [r EXCEPT !.status = row.status,
                         !.error_message = row.error_message,
                         !.processed_at = row.processed_at,
                         !.manifest_last_modified = row.manifest_last_modified,
                         !.expected_files = row.expected_files] : r \in old }

\* the expected_files keyword argument: absent, a str, or a value of another type
Absent == [type |-> "absent", text |-> ""]
StrArg(text) == [type |-> "str", text |-> text]
OtherArg(type) == [type |-> type, text |-> ""]

\* the row update_processed_manifest binds to the INSERT statement
insert_row(kwargs, now) ==
    LET partition_match == manifest_partition(kwargs.manifest_path)
    IN  [account_id |-> kwargs.account_id,
         manifest_path |-> kwargs.manifest_path,
         manifest_partition |->
             IF IsNone(partition_match) THEN kwargs.manifest_partition
             ELSE TheVal(partition_match),
         report_type |-> kwargs.report_type,
         manifest_last_modified |-> SqlDatetime(kwargs.manifest_last_modified),
         status |-> kwargs.status,
         error_message |-> kwargs.error_message,
         processed_at |-> now,
         expected_files |-> IF kwargs.expected_files.type = "absent" THEN "[]"
                            ELSE kwargs.expected_files.text]

\* update_processed_manifest writing the row before the database error
update_processed_manifest_written(table, kwargs, now, db_error) ==
    LET ok == /\ ~IsNone(manifest_partition(kwargs.manifest_path))
              /\ kwargs.expected_files.type \in { "absent", "str" }
              /\ kwargs.expected_files.type = "str" =>
                     expected_files_valid(kwargs.expected_files.text)
    IN  [result |-> ok /\ ~db_error,
         table |-> IF ok THEN upsert(table, insert_row(kwargs, now)) ELSE table]

\* DBHandler.update_processed_manifest: the value it returns and the table it
\* leaves; db_error is the execute or commit raising
update_processed_manifest(table, kwargs, now, db_error) ==
    IF IsNone(manifest_partition(kwargs.manifest_path))
    THEN [result |-> FALSE, table |-> table]
    ELSE IF kwargs.expected_files.type \notin { "absent", "str" }
    THEN [result |-> FALSE, table |-> table]
    ELSE IF /\ kwargs.expected_files.type = "str"
            /\ ~expected_files_valid(kwargs.expected_files.text)
    THEN [result |-> FALSE, table |-> table]
    ELSE IF db_error
    THEN [result |-> FALSE, table |-> table]
    ELSE [result |-> TRUE, table |-> upsert(table, insert_row(kwargs, now))]

\* DBHandler.get_processed_manifest: cursor.fetchone()
get_processed_manifest(table, account_id, manifest_path) ==
    LET rows == { r \in table : r.account_id = account_id
                                /\ r.manifest_path = manifest_path }
    IN  IF rows = { } THEN None ELSE Some(CHOOSE r \in rows : TRUE)

\* expected_files_json that never encodes the list
expected_files_json_empty(expected_files) == "[]"

\* CURParquetConverter._update_processed_manifest: the JSON text it passes on
expected_files_json(expected_files) ==
    IF expected_files = << >> THEN "[]" ELSE json_dumps(expected_files)


(***************************************************************************)
(* parquet_utils.ParquetConverter.convert_csv_to_parquet and               *)
(* CURParquetConverter._process_data_file.                                 *)
(***************************************************************************)
\* the calls made by convert_csv_to_parquet that can raise whatever the
\* content is (no space left, no permission, a failing library call)
ConvertCalls == { "csv_tmp", "write", "parquet_tmp", "read_csv", "from_pandas",
                  "write_table", "read", "unlink_csv", "unlink_parquet" }

\* tempfile.NamedTemporaryFile(suffix=suffix, delete=False): a new file under
\* a name no file of the temporary directory has
NamedTemporaryFile(tmp, suffix) ==
    [name |-> CHOOSE n \in 1..(Cardinality(tmp) + 1) : \A f \in tmp : f.name # n,
     suffix |-> suffix]

\* conversion_failed without the except clause: the exception leaves the call
conversion_failed_raising == [result |-> None, raised |-> TRUE]

\* except Exception: the error is logged and None is returned
conversion_failed == [result |-> None, raised |-> FALSE]

\* convert_csv_to_parquet on the content of a data object, in a temporary
\* directory holding the files tmp, when the calls in raises raise: the value
\* returned, the files of the directory afterwards and the files it created.
\* Content that is not gzip CSV makes read_csv raise.
convert_csv_to_parquet(csv_content, raises, tmp) ==
    LET csv_path == NamedTemporaryFile(tmp, ".csv.gz")
        with_csv == tmp \cup { csv_path }
        parquet_path == NamedTemporaryFile(with_csv, ".parquet")
        \* finally: os.unlink of both files, an unlink that raises is logged
        kept == { f \in { csv_path, parquet_path } :
                    \/ f = csv_path /\ "unlink_csv" \in raises
                    \/ f = parquet_path /\ "unlink_parquet" \in raises }
        failed(files, created) ==
            [result |-> conversion_failed.result, raised |-> conversion_failed.raised,
             tmp |-> files, created |-> created]
    IN  IF "csv_tmp" \in raises THEN failed(tmp, { })
        ELSE IF "write" \in raises \/ "parquet_tmp" \in raises
             THEN failed(with_csv, { csv_path })
        ELSE IF \/ csv_content # "csv"
                \/ raises \cap { "read_csv", "from_pandas", "write_table", "read" } # { }
             THEN failed(tmp \cup kept, { csv_path, parquet_path })
        ELSE [result |-> Some("parquet"), raised |-> FALSE,
              tmp |-> tmp \cup kept, created |-> { csv_path, parquet_path }]

\* S3Handler.put_object: True when the object was stored; put_object of the
\* client raises for a bucket name that is None
put_object(bucket, raises) == ~IsNone(bucket) /\ ~raises

\* _process_data_file: whether the source object was fetched, whether the
\* converter and put_object were called, the value returned and the files of
\* the temporary directory afterwards
process_data_file(acct, source_key, raises, put_raises, bucket, tmp) ==
    LET key == normalize_s3_path(acct, source_key)
        fetched == << acct.bucket, key >> \in DOMAIN SourceData
        passed == fetched /\ EndsWith(Lower(key), ".parquet")
        conversion == IF fetched /\ ~passed
                      THEN convert_csv_to_parquet(SourceData[<< acct.bucket, key >>],
                                                  raises, tmp)
                      ELSE [result |-> None, raised |-> FALSE, tmp |-> tmp,
                            created |-> { }]
        parquet_content == IF passed THEN Some(SourceData[<< acct.bucket, key >>])
                           ELSE conversion.result
        put == fetched /\ ~conversion.raised /\ ~IsNone(parquet_content)
    IN  [fetched |-> fetched,
         converted |-> fetched /\ ~passed,
         conversion |-> conversion,
         put |-> put,
         result |-> put /\ put_object(bucket, put_raises),
         tmp |-> conversion.tmp]

(***************************************************************************)
(* The state.                                                              *)
(***************************************************************************)
VARIABLES
    run,              \* number of starts of the script so far
    pc,               \* where the running script is; "idle" between two runs
    args,             \* the parsed command line of the run
    exit_code,        \* the status of sys.exit / parser.error, None while running
    accounts,         \* process_cur_files: the selected account rows
    ai,               \* process_cur_files: index of the account being processed
    run_success,      \* process_cur_files: success
    report_types,     \* _process_account: the (tier, report name) pairs
    ti,               \* _process_account: index of the report type
    account_success,  \* _process_account: success
    billing_periods,  \* _process_account: the partitions of the report type
    bi,               \* _process_account: index of the partition
    att,              \* _process_manifest: its local variables
    ret,              \* the value _process_manifest returned
    manifests,        \* source stores: the manifest objects
    dest,             \* destination store: the keys of its objects
    ledger,           \* the rows of the processedfiles table
    faults,           \* transient call failures so far
    rewrites,         \* external manifest rewrites so far
    log,              \* history of the current _process_manifest call
    visited,          \* history of the run: the (account, tier, partition) attempted
    results,          \* history of the run: what each _process_manifest call returned
    listings,         \* history of the run: the list_objects_v2 calls and their responses
    clock,            \* datetime.now(), in ticks
    db_call,          \* the last direct call of update_processed_manifest and its result
    unrecorded,       \* history: the attempts whose ledger write failed, by ledger key
    environ,          \* os.environ after load_dotenv: the configuration values
    tmp_files,        \* the files in the temporary directory
    conv_call,        \* the last direct call of the converter and its result
    interrupted       \* history: the attempts the process was killed in

vars == << run, pc, args, exit_code, accounts, ai, run_success, report_types, ti,
           account_success, billing_periods, bi, att, ret, manifests, dest, ledger,
           faults, rewrites, log, visited, results, listings, clock, db_call,
           unrecorded, environ, tmp_files, conv_call, interrupted >>

orch == << accounts, ai, run_success, report_types, ti, account_success,
           billing_periods, bi >>
stores == << manifests, dest, ledger >>
env == << faults, rewrites >>

NoArgs == [force |-> FALSE, payer |-> None, tier |-> None, path |-> None]

\* the account, tier and partition selections of a command line
ArgChoices ==
    { [force |-> FALSE, payer |-> None, tier |-> None, path |-> None],
      [force |-> TRUE, payer |-> None, tier |-> None, path |-> None],
      [force |-> FALSE, payer |-> Some("999"), tier |-> None, path |-> None],
      [force |-> FALSE, payer |-> Some("111"), tier |-> Some("daily"), path |-> None],
      [force |-> FALSE, payer |-> None, tier |-> Some("hourly"),
       path |-> Some("BILLING_PERIOD=2025-07")],
      [force |-> FALSE, payer |-> None, tier |-> None, path |-> Some("2025-06")] }

NoAtt == [manifest_path |-> "", manifest_last_modified |-> None, processed |-> None,
          partition |-> None, data_files |-> << >>, expected_files |-> << >>,
          fi |-> 0, success |-> TRUE]

NoLog == [consulted |-> FALSE, entered |-> FALSE, read |-> None, conversions |-> 0,
          puts |-> 0,
          uploaded |-> { }, listed |-> { }, deleted |-> { }, reconciled |-> FALSE,
          file_results |-> << >>, upsert |-> None]

ManifestsInit(body) ==
    MA  :> Some(S3Object(10, body)) @@
    MA5 :> Some(S3Object(10, Body(<< Str(K0) >>))) @@
    MA7 :> Some(S3Object(10, Body(<< Str(K7) >>))) @@
    MD  :> Some(S3Object(10, Body(<< Str(KD) >>))) @@
    MB  :> Some(S3Object(10, Body(<< Str(K1) >>)))

\* the environment of a deployment that sets every configuration value
CompleteEnviron == [PARQUET_BUCKET |-> Some("parquet"), AWS_REGION |-> Some("eu-west-1")]

\* the state the script is started in, with the table and the destination
\* objects the earlier runs left and the configuration values of the environment
InitAt(table, objects, environment) ==
    /\ run = 0
    /\ pc = "idle"
    /\ args = NoArgs
    /\ exit_code = None
    /\ accounts = << >> /\ ai = 0 /\ run_success = TRUE
    /\ report_types = << >> /\ ti = 0 /\ account_success = TRUE
    /\ billing_periods = << >> /\ bi = 0
    /\ att = NoAtt
    /\ ret = TRUE
    /\ \E body \in InitBodies : manifests = ManifestsInit(body)
    /\ dest = objects
    /\ ledger = table
    /\ faults = 0
    /\ rewrites = 0
    /\ log = NoLog
    /\ visited = << >>
    /\ results = << >>
    /\ listings = << >>
    /\ clock = 0
    /\ db_call = None
    /\ unrecorded = { }
    /\ environ = environment
    /\ tmp_files = { }
    /\ conv_call = None
    /\ interrupted = { }

\* the state the script is started in when every configuration value is set
InitWith(table, objects) == InitAt(table, objects, CompleteEnviron)

\* the first start of the script: an empty ledger
Init == InitWith({ }, ForeignObjects)

\* the account, report tier and report name of the manifest being processed
account == accounts[ai]
report_type == report_types[ti][1]
report_name == report_types[ti][2]


(***************************************************************************)
(* main and process_cur_files.                                             *)
(***************************************************************************)
\* main: parse the command line; parser.error exits with status 2
Main(a) ==
    /\ pc = "idle"
    /\ run < MaxRuns
    /\ run' = run + 1
    /\ args' = a
    /\ IF ~IsNone(a.path) /\ ~StartsWith(TheVal(a.path), BP)
       THEN pc' = "idle" /\ exit_code' = Some(2)
       ELSE pc' = "process_cur_files" /\ exit_code' = None
    /\ log' = NoLog /\ visited' = << >> /\ results' = << >>
    /\ UNCHANGED << orch, att, ret, stores, env >>
    /\ listings' = << >>
    /\ clock' = clock + 1
    /\ UNCHANGED << db_call, unrecorded >>
    /\ UNCHANGED << environ, tmp_files, conv_call, interrupted >>

\* process_cur_files up to the loop over the accounts
ProcessCurFiles ==
    /\ pc = "process_cur_files"
    /\ LET selected == get_filtered_accounts(ExportsTable, args.payer, args.tier)
       IN  /\ accounts' = selected
           /\ IF selected = << >>
              THEN run_success' = FALSE /\ ai' = 0 /\ pc' = "exit"
              ELSE run_success' = TRUE /\ ai' = 1 /\ pc' = "account"
    /\ UNCHANGED << run, args, exit_code, report_types, ti, account_success,
                    billing_periods, bi, att, ret, stores, env, log, visited, results >>
    /\ UNCHANGED << listings, clock, db_call, unrecorded >>
    /\ UNCHANGED << environ, tmp_files, conv_call, interrupted >>

\* _process_account up to the loop over the report types
ProcessAccount ==
    /\ pc = "account"
    /\ ai <= Len(accounts)
    /\ LET selected == select_report_types(account, args.path, args.tier, 1)
       IN  IF selected = << >>
           THEN /\ ai' = ai + 1
                /\ UNCHANGED << pc, report_types, ti, account_success >>
           ELSE /\ report_types' = selected
                /\ ti' = 1
                /\ account_success' = TRUE
                /\ pc' = "tier"
                /\ UNCHANGED ai
    /\ UNCHANGED << run, args, exit_code, accounts, run_success, billing_periods, bi,
                    att, ret, stores, env, log, visited, results >>
    /\ UNCHANGED << listings, clock, db_call, unrecorded >>
    /\ UNCHANGED << environ, tmp_files, conv_call, interrupted >>

\* process_cur_files: the loop over the accounts is exhausted
AccountsDone ==
    /\ pc = "account"
    /\ ai > Len(accounts)
    /\ pc' = "exit"
    /\ UNCHANGED << run, args, exit_code, orch, att, ret, stores, env, log, visited,
                    results >>
    /\ UNCHANGED << listings, clock, db_call, unrecorded >>
    /\ UNCHANGED << environ, tmp_files, conv_call, interrupted >>

\* main: sys.exit(0 if success else 1)
SysExit ==
    /\ pc = "exit"
    /\ exit_code' = Some(IF run_success THEN 0 ELSE 1)
    /\ pc' = "idle"
    /\ accounts' = << >> /\ ai' = 0 /\ run_success' = TRUE
    /\ report_types' = << >> /\ ti' = 0 /\ account_success' = TRUE
    /\ billing_periods' = << >> /\ bi' = 0
    /\ UNCHANGED << run, args, att, ret, stores, env, log, visited, results >>
    /\ UNCHANGED << listings, clock, db_call, unrecorded >>
    /\ UNCHANGED << environ, tmp_files, conv_call, interrupted >>

(***************************************************************************)
(* _process_account: the loops over the report types and the partitions.   *)
(***************************************************************************)
\* _list_billing_periods for the next report type
ListBillingPeriods ==
    /\ pc = "tier"
    /\ ti <= Len(report_types)
    /\ LET periods == list_billing_periods(account, report_name, args.path)
       IN  IF periods = << >>
           THEN /\ ti' = ti + 1
                /\ UNCHANGED << pc, billing_periods, bi >>
           ELSE /\ billing_periods' = periods
                /\ bi' = 1
                /\ pc' = "partition"
                /\ UNCHANGED ti
    /\ UNCHANGED << run, args, exit_code, accounts, ai, run_success, report_types,
                    account_success, att, ret, stores, env, log, visited, results >>
    /\ listings' = listings \o list_requests(account, report_name, args.path)
    /\ UNCHANGED << clock, db_call, unrecorded >>
    /\ UNCHANGED << environ, tmp_files, conv_call, interrupted >>

\* AccountReturn keeping only the result of the last account
AccountReturn_last ==
    /\ pc = "tier"
    /\ ti > Len(report_types)
    /\ run_success' = account_success
    /\ ai' = ai + 1
    /\ report_types' = << >> /\ ti' = 0 /\ account_success' = TRUE
    /\ pc' = "account"
    /\ UNCHANGED << run, args, exit_code, accounts, billing_periods, bi, att, ret,
                    stores, env, log, visited, results >>
    /\ UNCHANGED << listings, clock, db_call, unrecorded >>
    /\ UNCHANGED << environ, tmp_files, conv_call, interrupted >>

\* _process_account returns; process_cur_files folds the result
AccountReturn ==
    /\ pc = "tier"
    /\ ti > Len(report_types)
    /\ run_success' = (run_success /\ account_success)
    /\ ai' = ai + 1
    /\ report_types' = << >> /\ ti' = 0 /\ account_success' = TRUE
    /\ pc' = "account"
    /\ UNCHANGED << run, args, exit_code, accounts, billing_periods, bi, att, ret,
                    stores, env, log, visited, results >>
    /\ UNCHANGED << listings, clock, db_call, unrecorded >>
    /\ UNCHANGED << environ, tmp_files, conv_call, interrupted >>

\* _get_manifest_key and the call of _process_manifest for the next partition
StartManifest ==
    /\ pc = "partition"
    /\ bi <= Len(billing_periods)
    /\ att' = [NoAtt EXCEPT !.manifest_path =
                  get_manifest_key(account, report_name, billing_periods[bi])]
    /\ log' = NoLog
    /\ visited' = Append(visited, << account.account_id, report_type, billing_periods[bi] >>)
    /\ pc' = "probe"
    /\ UNCHANGED << run, args, exit_code, orch, ret, stores, env, results >>
    /\ UNCHANGED << listings, clock, db_call, unrecorded >>
    /\ UNCHANGED << environ, tmp_files, conv_call, interrupted >>

\* the loop over the partitions is exhausted
PartitionsDone ==
    /\ pc = "partition"
    /\ bi > Len(billing_periods)
    /\ ti' = ti + 1
    /\ billing_periods' = << >> /\ bi' = 0
    /\ pc' = "tier"
    /\ UNCHANGED << run, args, exit_code, accounts, ai, run_success, report_types,
                    account_success, att, ret, stores, env, log, visited, results >>
    /\ UNCHANGED << listings, clock, db_call, unrecorded >>
    /\ UNCHANGED << environ, tmp_files, conv_call, interrupted >>

\* ReturnToAccount leaving the loop over the partitions on a failure
ReturnToAccount_break ==
    /\ pc = "returned"
    /\ account_success' = (account_success /\ ret)
    /\ results' = Append(results, ret)
    /\ bi' = IF ret THEN bi + 1 ELSE Len(billing_periods) + 1
    /\ att' = NoAtt
    /\ log' = NoLog
    /\ ret' = TRUE
    /\ pc' = "partition"
    /\ UNCHANGED << run, args, exit_code, accounts, ai, run_success, report_types, ti,
                    billing_periods, stores, env, visited >>
    /\ UNCHANGED << listings, clock, db_call, unrecorded >>
    /\ UNCHANGED << environ, tmp_files, conv_call, interrupted >>

\* _process_account folds the result of _process_manifest
ReturnToAccount ==
    /\ pc = "returned"
    /\ account_success' = (account_success /\ ret)
    /\ results' = Append(results, ret)
    /\ bi' = bi + 1
    /\ att' = NoAtt
    /\ log' = NoLog
    /\ ret' = TRUE
    /\ pc' = "partition"
    /\ UNCHANGED << run, args, exit_code, accounts, ai, run_success, report_types, ti,
                    billing_periods, stores, env, visited >>
    /\ UNCHANGED << listings, clock, db_call, unrecorded >>
    /\ UNCHANGED << environ, tmp_files, conv_call, interrupted >>


(***************************************************************************)
(* _process_manifest.                                                      *)
(***************************************************************************)
\* get_object_metadata answering for an absent object as well
get_object_metadata_found(store, acct, key) ==
    IF << acct.bucket, key >> \in DOMAIN store /\ ~IsNone(store[<< acct.bucket, key >>])
    THEN Some([last_modified |-> TheVal(store[<< acct.bucket, key >>]).last_modified])
    ELSE Some([last_modified |-> Utc(0)])

\* S3Handler.get_object_metadata: the key without an s3://bucket/ or bucket/
\* prefix, then head_object; None when the object is absent
get_object_metadata(store, acct, key) ==
    LET k == IF StartsWith(key, "s3://") THEN SplitMax(key, "/", 3)[4]
             ELSE IF StartsWith(key, acct.bucket \o "/")
                  THEN SubSeq(key, Len(acct.bucket) + 2, Len(key))
             ELSE key
    IN  IF << acct.bucket, k >> \in DOMAIN store /\ ~IsNone(store[<< acct.bucket, k >>])
        THEN Some([last_modified |-> TheVal(store[<< acct.bucket, k >>]).last_modified])
        ELSE None

\* _read_manifest_file: the parsed manifest, None for the empty dict it
\* returns when the object is absent or is not a JSON object with dataFiles
read_manifest_file(store, acct, key) ==
    LET k == IF StartsWith(key, acct.bucket \o "/")
             THEN SubSeq(key, Len(acct.bucket) + 2, Len(key))
             ELSE key
    IN  IF << acct.bucket, k >> \notin DOMAIN store \/ IsNone(store[<< acct.bucket, k >>])
        THEN None
        ELSE LET body == TheVal(store[<< acct.bucket, k >>]).body
             IN  IF body.syntax = "object" THEN Some(body) ELSE None

\* after_probe with the force flag ignored
after_probe_unforced(force) == "lookup"

\* the branch _process_manifest takes after a successful metadata probe
after_probe(force) == IF force THEN "read" ELSE "lookup"

\* freshness without ensure_utc_timestamp on the stored value
freshness_naive(processed, manifest_last_modified) ==
    IF ~IsNone(processed) /\ TheVal(processed).status = "success"
    THEN LET delta == total_seconds(TheVal(processed).manifest_last_modified,
                                    TheVal(manifest_last_modified))
         IN  IF IsNone(delta) THEN "raise"
             ELSE IF Abs(TheVal(delta)) < 1 THEN "skip"
             ELSE "process"
    ELSE "process"

\* freshness without the test of the status
freshness_any_status(processed, manifest_last_modified) ==
    IF ~IsNone(processed)
    THEN LET delta == total_seconds(
                 TheVal(ensure_utc_timestamp(Some(TheVal(processed).manifest_last_modified))),
                 TheVal(ensure_utc_timestamp(manifest_last_modified)))
         IN  IF Abs(TheVal(delta)) < 1 THEN "skip" ELSE "process"
    ELSE "process"

\* the freshness test: "skip" when the record is a success whose stored
\* modification time is less than 1 second from the manifest's, "raise" when
\* the subtraction raises, "process" otherwise
freshness(processed, manifest_last_modified) ==
    IF ~IsNone(processed) /\ TheVal(processed).status = "success"
    THEN LET db_last_modified ==
                 ensure_utc_timestamp(Some(TheVal(processed).manifest_last_modified))
             s3_last_modified == ensure_utc_timestamp(manifest_last_modified)
             delta == total_seconds(TheVal(db_last_modified), TheVal(s3_last_modified))
         IN  IF IsNone(delta) THEN "raise"
             ELSE IF Abs(TheVal(delta)) < 1 THEN "skip"
             ELSE "process"
    ELSE "process"

\* the metadata probe of the manifest
Probe ==
    /\ pc = "probe"
    /\ LET manifest_metadata == get_object_metadata(manifests, account, att.manifest_path)
       IN  IF IsNone(manifest_metadata)
           THEN /\ ret' = FALSE
                /\ pc' = "returned"
                /\ UNCHANGED att
           ELSE /\ att' = [att EXCEPT !.manifest_last_modified =
                                         Some(TheVal(manifest_metadata).last_modified)]
                /\ pc' = after_probe(args.force)
                /\ UNCHANGED ret
    /\ UNCHANGED << run, args, exit_code, orch, stores, env, log, visited, results >>
    /\ UNCHANGED << listings, clock, db_call, unrecorded >>
    /\ UNCHANGED << environ, tmp_files, conv_call, interrupted >>

\* the ledger lookup and the freshness test; the lookup returns None when the
\* query fails
Lookup ==
    /\ pc = "lookup"
    /\ \E failed \in BOOLEAN :
        /\ failed => faults < MaxFaults
        /\ faults' = IF failed THEN faults + 1 ELSE faults
        /\ LET processed == IF failed THEN None
                            ELSE get_processed_manifest(ledger, account.account_id,
                                                        att.manifest_path)
               verdict == freshness(processed, att.manifest_last_modified)
           IN  /\ att' = [att EXCEPT !.processed = processed]
               /\ IF verdict = "skip" THEN ret' = TRUE /\ pc' = "returned"
                  ELSE IF verdict = "raise" THEN ret' = FALSE /\ pc' = "returned"
                  ELSE pc' = "read" /\ UNCHANGED ret
    /\ log' = [log EXCEPT !.consulted = TRUE]
    /\ UNCHANGED << run, args, exit_code, orch, stores, rewrites, visited, results >>
    /\ UNCHANGED << listings, clock, db_call, unrecorded >>
    /\ UNCHANGED << environ, tmp_files, conv_call, interrupted >>

\* ReadManifest recording the manifest as processed before its files are
\* converted
ReadManifest_recording ==
    /\ pc = "read"
    /\ LET manifest == read_manifest_file(manifests, account, att.manifest_path)
           partition == extract_partition(att.manifest_path)
           data_files == IF IsNone(manifest) THEN << >>
                         ELSE get_data_files_from_manifest(TheVal(manifest).dataFiles)
       IN  IF IsNone(manifest) \/ IsNone(partition) \/ data_files = << >>
           THEN /\ ret' = FALSE
                /\ pc' = "returned"
                /\ UNCHANGED << att, ledger >>
           ELSE /\ att' = [att EXCEPT
                             !.partition = partition,
                             !.data_files = data_files,
                             !.expected_files =
                                 [i \in DOMAIN data_files |->
                                     generate_target_filename(data_files[i])],
                             !.fi = 1,
                             !.success = TRUE]
                /\ ledger' = update_processed_manifest(ledger,
                                 [account_id |-> account.account_id,
                                  manifest_path |-> att.manifest_path,
                                  manifest_partition |-> "",
                                  report_type |-> report_type,
                                  manifest_last_modified |->
                                      TheVal(att.manifest_last_modified),
                                  status |-> "success",
                                  error_message |-> None,
                                  expected_files |-> StrArg("[]")],
                                 clock, FALSE).table
                /\ pc' = "file"
                /\ UNCHANGED ret
    /\ log' = [log EXCEPT !.entered = TRUE,
                          !.read = IF << account.bucket, att.manifest_path >>
                                        \in DOMAIN manifests
                                   THEN manifests[<< account.bucket, att.manifest_path >>]
                                   ELSE None]
    /\ UNCHANGED << run, args, exit_code, orch, manifests, dest, env, visited, results >>
    /\ UNCHANGED << listings, clock, db_call, unrecorded >>
    /\ UNCHANGED << environ, tmp_files, conv_call, interrupted >>

\* read the manifest, extract the partition, the data files and the expected
\* file names
ReadManifest ==
    /\ pc = "read"
    /\ LET manifest == read_manifest_file(manifests, account, att.manifest_path)
           partition == extract_partition(att.manifest_path)
           data_files == IF IsNone(manifest) THEN << >>
                         ELSE get_data_files_from_manifest(TheVal(manifest).dataFiles)
       IN  IF IsNone(manifest) \/ IsNone(partition) \/ data_files = << >>
           THEN /\ ret' = FALSE
                /\ pc' = "returned"
                /\ UNCHANGED att
           ELSE /\ att' = [att EXCEPT
                             !.partition = partition,
                             !.data_files = data_files,
                             !.expected_files =
                                 [i \in DOMAIN data_files |->
                                     generate_target_filename(data_files[i])],
                             !.fi = 1,
                             !.success = TRUE]
                /\ pc' = "file"
                /\ UNCHANGED ret
    /\ log' = [log EXCEPT !.entered = TRUE,
                          !.read = IF << account.bucket, att.manifest_path >>
                                        \in DOMAIN manifests
                                   THEN manifests[<< account.bucket, att.manifest_path >>]
                                   ELSE None]
    /\ UNCHANGED << run, args, exit_code, orch, stores, env, visited, results >>
    /\ UNCHANGED << listings, clock, db_call, unrecorded >>
    /\ UNCHANGED << environ, tmp_files, conv_call, interrupted >>

\* _process_data_file up to the upload: "absent" when the source object cannot
\* be fetched, "unconverted" when convert_csv_to_parquet returns None, "put"
\* when there is Parquet content to upload
fetch_and_convert(acct, source_key) ==
    LET call == process_data_file(acct, source_key, { }, FALSE, None, { })
    IN  IF ~call.fetched THEN "absent"
        ELSE IF call.put THEN "put"
        ELSE "unconverted"

\* fold_success keeping only the result of the last file
fold_success_last(success, result) == result

\* success = success and the result of the file
fold_success(success, result) == success /\ result

\* one iteration of the loop over the data files: _get_target_key, then
\* _process_data_file; a StopIteration of _get_target_key ends the call
ProcessDataFile ==
    /\ pc = "file"
    /\ LET source_key == att.data_files[att.fi]
           target_key == get_target_key(account, report_type, source_key)
       IN  IF IsNone(target_key)
           THEN /\ ret' = FALSE
                /\ pc' = "returned"
                /\ UNCHANGED << att, dest, faults, log >>
           ELSE LET step == fetch_and_convert(account, source_key)
                IN  \E put_failed \in BOOLEAN :
                      /\ put_failed => (step = "put" /\ faults < MaxFaults)
                      /\ faults' = IF put_failed THEN faults + 1 ELSE faults
                      /\ LET result == step = "put"
                                       /\ put_object(environ.PARQUET_BUCKET, put_failed)
                         IN  /\ dest' = IF result THEN dest \cup { TheVal(target_key) }
                                        ELSE dest
                             /\ att' = [att EXCEPT
                                          !.success = fold_success(att.success, result),
                                          !.fi = att.fi + 1]
                             /\ log' = [log EXCEPT
                                          !.conversions = @ + (IF step # "absent"
                                              /\ ~EndsWith(Lower(normalize_s3_path(account, source_key)), ".parquet")
                                              THEN 1 ELSE 0),
                                          !.puts = @ + (IF step = "put" THEN 1 ELSE 0),
                                          !.uploaded = IF result
                                                       THEN @ \cup { TheVal(target_key) }
                                                       ELSE @,
                                          !.file_results = Append(@, result)]
                      /\ pc' = IF att.fi = Len(att.data_files) THEN "reconcile" ELSE "file"
                      /\ UNCHANGED ret
    /\ UNCHANGED << run, args, exit_code, orch, manifests, ledger, rewrites, visited,
                    results >>
    /\ UNCHANGED << listings, clock, db_call, unrecorded >>
    /\ UNCHANGED << environ, tmp_files, conv_call, interrupted >>

\* _cleanup_old_files; the listing of a bucket None raises and is caught
Reconcile ==
    /\ pc = "reconcile"
    /\ LET prefix == cleanup_prefix(account, report_type, TheVal(att.partition))
           listed == IF IsNone(environ.PARQUET_BUCKET) THEN { }
                     ELSE { k \in dest : StartsWith(k, prefix) }
           deleted == cleanup_deletes(listed, att.expected_files)
       IN  /\ dest' = dest \ deleted
           /\ log' = [log EXCEPT !.listed = listed, !.deleted = deleted,
                                 !.reconciled = TRUE]
    /\ pc' = "record"
    /\ UNCHANGED << run, args, exit_code, orch, att, ret, manifests, ledger, env,
                    visited, results >>
    /\ UNCHANGED << listings, clock, db_call, unrecorded >>
    /\ UNCHANGED << environ, tmp_files, conv_call, interrupted >>

\* manifest_status that records every attempt as a success
manifest_status_success(success) == "success"

\* the status _process_manifest records
manifest_status(success) == IF success THEN "success" ELSE "error"

\* _update_processed_manifest and the return of _process_manifest; the INSERT
\* fails when the database call raises
Record ==
    /\ pc = "record"
    /\ \E failed \in BOOLEAN :
        /\ failed => faults < MaxFaults
        /\ faults' = IF failed THEN faults + 1 ELSE faults
        /\ LET kwargs == [account_id |-> account.account_id,
                          manifest_path |-> att.manifest_path,
                          manifest_partition |-> "",
                          report_type |-> report_type,
                          manifest_last_modified |-> TheVal(att.manifest_last_modified),
                          status |-> manifest_status(att.success),
                          error_message |-> None,
                          expected_files |-> StrArg(expected_files_json(att.expected_files))]
               before == get_processed_manifest(ledger, account.account_id,
                                                att.manifest_path)
               call == update_processed_manifest(ledger, kwargs, clock, failed)
               others == { u \in unrecorded : \/ u.account_id # account.account_id
                                               \/ u.manifest_path # att.manifest_path }
           IN  /\ ledger' = call.table
               /\ log' = [log EXCEPT !.upsert = Some([ok |-> call.result,
                                                      row |-> insert_row(kwargs, clock)])]
               /\ interrupted' =
                     IF call.result
                     THEN { i \in interrupted : \/ i.account_id # account.account_id
                                                \/ i.manifest_path # att.manifest_path }
                     ELSE interrupted
               /\ unrecorded' =
                     IF call.result THEN others
                     ELSE others \cup { [account_id |-> account.account_id,
                                         manifest_path |-> att.manifest_path,
                                         manifest_last_modified |->
                                             TheVal(att.manifest_last_modified),
                                         before |-> before] }
    /\ ret' = att.success
    /\ pc' = "returned"
    /\ UNCHANGED << run, args, exit_code, orch, att, manifests, dest, rewrites,
                    visited, results >>
    /\ UNCHANGED << listings, clock, db_call >>
    /\ UNCHANGED << environ, tmp_files, conv_call >>

(***************************************************************************)
(* The report producer rewrites the hourly 2025-06 manifest of account 111.*)
(***************************************************************************)
ExternalRewrite ==
    /\ rewrites < MaxRewrites
    /\ \E body \in RewriteBodies, d \in RewriteDeltas :
         manifests' = [manifests EXCEPT ![MA] =
             Some(S3Object(TheVal(manifests[MA]).last_modified.secs + d, body))]
    /\ rewrites' = rewrites + 1
    /\ UNCHANGED << run, pc, args, exit_code, orch, att, ret, dest, ledger, faults,
                    log, visited, results >>
    /\ UNCHANGED << listings, clock, db_call, unrecorded >>
    /\ UNCHANGED << environ, tmp_files, conv_call, interrupted >>

Next ==
    \/ \E a \in ArgChoices : Main(a)
    \/ ProcessCurFiles
    \/ ProcessAccount
    \/ AccountsDone
    \/ SysExit
    \/ ListBillingPeriods
    \/ AccountReturn
    \/ StartManifest
    \/ PartitionsDone
    \/ ReturnToAccount
    \/ Probe
    \/ Lookup
    \/ ReadManifest
    \/ ProcessDataFile
    \/ Reconcile
    \/ Record
    \/ ExternalRewrite

Spec == Init /\ [][Next]_vars

(***************************************************************************)
(* The script started on the ledger and the destination store an earlier   *)
(* run left: the hourly 2025-06 manifest of account 222 is recorded as a    *)
(* success and its Parquet object is in place.                             *)
(***************************************************************************)
EarlierRow ==
    insert_row([account_id |-> Acct2.account_id,
                manifest_path |-> MB[2],
                manifest_partition |-> "",
                report_type |-> "hourly",
                manifest_last_modified |-> Utc(10),
                status |-> manifest_status(TRUE),
                error_message |-> None,
                expected_files |->
                    StrArg(expected_files_json(<< generate_target_filename(K1) >>))],
               0)

EarlierObjects == { TheVal(get_target_key(Acct2, "hourly", K1)) }

InitLedger == InitWith({ EarlierRow }, ForeignObjects \cup EarlierObjects)

SpecLedger == InitLedger /\ [][Next]_vars

(***************************************************************************)
(* The script killed from outside during a call of _process_manifest, on   *)
(* the ledger and the destination store an earlier run left.               *)
(***************************************************************************)
\* number of runs that are killed in one behaviour
MaxKills == 1

\* the positions of a call of _process_manifest that has not yet returned
AttemptPcs == { "probe", "lookup", "read", "file", "reconcile", "record" }

\* the process gets SIGKILL: the local state of the run is gone, the stores
\* keep what the run has written so far
Kill ==
    /\ pc \in AttemptPcs
    /\ Cardinality(interrupted) < MaxKills
    /\ interrupted' =
           { i \in interrupted : \/ i.account_id # account.account_id
                                 \/ i.manifest_path # att.manifest_path }
               \cup { [account_id |-> account.account_id,
                       manifest_path |-> att.manifest_path,
                       force |-> args.force,
                       at |-> pc,
                       processed |-> att.processed,
                       row |-> get_processed_manifest(ledger, account.account_id,
                                                      att.manifest_path)] }
    /\ pc' = "idle"
    /\ exit_code' = Some(-9)
    /\ accounts' = << >> /\ ai' = 0 /\ run_success' = TRUE
    /\ report_types' = << >> /\ ti' = 0 /\ account_success' = TRUE
    /\ billing_periods' = << >> /\ bi' = 0
    /\ att' = NoAtt
    /\ ret' = TRUE
    /\ log' = NoLog /\ visited' = << >> /\ results' = << >> /\ listings' = << >>
    /\ UNCHANGED << run, args, stores, env, clock, db_call, unrecorded, environ,
                    tmp_files, conv_call >>

\* the command lines of the runs: account 222 without and with --force, the
\* hourly report of account 111 without
KillArgs ==
    { [force |-> FALSE, payer |-> Some("222"), tier |-> None, path |-> None],
      [force |-> TRUE, payer |-> Some("222"), tier |-> None, path |-> None],
      [force |-> FALSE, payer |-> Some("111"), tier |-> Some("hourly"), path |-> None] }

NextKill ==
    \/ \E a \in KillArgs : Main(a)
    \/ ProcessCurFiles
    \/ ProcessAccount
    \/ AccountsDone
    \/ SysExit
    \/ ListBillingPeriods
    \/ AccountReturn
    \/ StartManifest
    \/ PartitionsDone
    \/ ReturnToAccount
    \/ Probe
    \/ Lookup
    \/ ReadManifest
    \/ ProcessDataFile
    \/ Reconcile
    \/ Record
    \/ ExternalRewrite
    \/ Kill

\* the hourly 2025-06 manifest of account 111 lists a CSV and a Parquet object
InitKill == InitLedger /\ manifests = ManifestsInit(Body(<< Str(K1), Str(K3) >>))

SpecKill == InitKill /\ [][NextKill]_vars

(***************************************************************************)
(* The script started in an environment that lacks a configuration value:  *)
(* S3Handler.__init__ reads PARQUET_BUCKET and AWS_REGION with os.getenv   *)
(* and checks neither.                                                     *)
(***************************************************************************)
\* the environments the script is started in
Environs ==
    { CompleteEnviron,
      [CompleteEnviron EXCEPT !.PARQUET_BUCKET = None],
      [CompleteEnviron EXCEPT !.AWS_REGION = None] }

InitEnv ==
    /\ \E environment \in Environs : InitAt({ }, ForeignObjects, environment)
    /\ manifests = ManifestsInit(Body(<< Str(K1), Str(K3) >>))

SpecEnv == InitEnv /\ [][Next]_vars

(***************************************************************************)
(* DBHandler.update_processed_manifest called directly, with keyword       *)
(* arguments of every shape, on the table the earlier calls left.          *)
(***************************************************************************)
\* number of calls of update_processed_manifest in one behaviour
MaxCalls == 3

P6 == "cur/hr/metadata/BILLING_PERIOD=2025-06/hr-Manifest.json"
P5 == "cur/hr/metadata/BILLING_PERIOD=2025-05/hr-Manifest.json"

\* a call with well-formed arguments; the caller's own manifest_partition is
\* not the partition of the path
UpsertArgs(account_id, manifest_path, status, error_message, secs, expected_files) ==
    [account_id |-> account_id,
     manifest_path |-> manifest_path,
     manifest_partition |-> "BILLING_PERIOD=2000-01",
     report_type |-> "hourly",
     manifest_last_modified |-> Utc(secs),
     status |-> status,
     error_message |-> error_message,
     expected_files |-> expected_files]

\* the texts of expected_files that are JSON lists of names ending in .parquet
ValidExpectedFiles ==
    { "[]", "[\"a.parquet\"]", "[\"a.parquet\", \"b.parquet\"]",
      "[\"a.parquet\",\"b.parquet\"]" }

\* texts that are not JSON, JSON values that are not lists, lists with an
\* element that is not a str or does not end in .parquet
InvalidExpectedFiles ==
    { "", "not json", "[\"a.parquet\"", "a.parquet",
      "{}", "\"a.parquet\"", "5", "null",
      "[5]", "[null]", "[\"a.parquet\", 5]",
      "[\"a.csv\"]", "[\"a.parquet\", \"b.csv\"]", "[\"a.parquet.gz\"]" }

\* manifest paths without a BILLING_PERIOD=<value> part
PathsWithoutPartition ==
    { "", "cur/hr/metadata/hr-Manifest.json",
      "cur/hr/metadata/BILLING_PERIOD=/hr-Manifest.json",
      "cur/hr/metadata/2025-06/hr-Manifest.json" }

UpsertCalls ==
    { UpsertArgs(k[1], k[2], "success", None, 10, StrArg("[\"a.parquet\"]")) :
        k \in { << "111", P6 >>, << "222", P6 >>, << "111", P5 >> } }
    \cup { UpsertArgs(k[1], k[2], "error", Some("failed"), 12, StrArg("[]")) :
        k \in { << "111", P6 >>, << "222", P6 >>, << "111", P5 >> } }
    \cup { UpsertArgs("111", P6, "success", None, 12, StrArg(t)) :
        t \in ValidExpectedFiles \cup InvalidExpectedFiles }
    \cup { UpsertArgs("111", P6, "success", None, 12, a) :
        a \in { Absent, OtherArg("list"), OtherArg("NoneType") } }
    \cup { UpsertArgs("111", path, "success", None, 12, StrArg("[\"a.parquet\"]")) :
        path \in PathsWithoutPartition }

\* one call of update_processed_manifest
UpdateProcessedManifest(kwargs, db_error) ==
    /\ clock < MaxCalls
    /\ clock' = clock + 1
    /\ LET call == update_processed_manifest(ledger, kwargs, clock', db_error)
       IN  /\ ledger' = call.table
           /\ db_call' = Some([kwargs |-> kwargs,
                               db_error |-> db_error,
                               before |-> get_processed_manifest(
                                              ledger, kwargs.account_id,
                                              kwargs.manifest_path),
                               result |-> call.result])
    /\ UNCHANGED << run, pc, args, exit_code, orch, att, ret, manifests, dest, env,
                    log, visited, results, listings, unrecorded >>
    /\ UNCHANGED << environ, tmp_files, conv_call, interrupted >>

InitDB == Init /\ manifests = ManifestsInit(Body(<< Str(K1), Str(K3) >>))

\* the database fails only in calls that reach the INSERT
NextDB ==
    \E kwargs \in UpsertCalls, db_error \in BOOLEAN :
        /\ db_error => update_processed_manifest(ledger, kwargs, clock, FALSE).result
        /\ UpdateProcessedManifest(kwargs, db_error)

SpecDB == InitDB /\ [][NextDB]_vars

(***************************************************************************)
(* parquet_utils.ParquetConverter._process_data_types on one cell of a     *)
(* column.  A cell is a Python value: its type, its text and, for a dict,  *)
(* its items as << key, value >> pairs.                                    *)
(***************************************************************************)
STRING_COLUMNS ==
    { "line_item_usage_account_id", "bill_payer_account_id", "line_item_resource_id",
      "product_region", "line_item_operation", "line_item_line_item_type",
      "product_product_family", "line_item_usage_type", "pricing_term",
      "product_from_account_id", "product_to_account_id", "pricing_plan_arn",
      "resource_id", "bill_invoice_id" }

TIME_FIELDS ==
    { "line_item_usage_start_date", "line_item_usage_end_date",
      "bill_billing_period_start_date", "bill_billing_period_end_date" }

MAP_FIELDS == { "cost_category", "discount", "product", "resource_tags" }

\* the missing value of pandas
NaN == [type |-> "float", text |-> "nan", items |-> << >>]
StrVal(text) == [type |-> "str", text |-> text, items |-> << >>]
FloatVal(text) == [type |-> "float", text |-> text, items |-> << >>]
DictVal(items) == [type |-> "dict", text |-> "", items |-> items]

\* pd.isna
isna(val) == val = NaN

\* str.rstrip(' ') and str.strip(' ')
RECURSIVE RStrip(_)
RStrip(t) ==
    IF Len(t) > 0 /\ SubSeq(t, Len(t), Len(t)) = " " THEN RStrip(SubSeq(t, 1, Len(t) - 1))
    ELSE t

Strip(t) == LStrip(RStrip(t))

\* digits '.' digits
IsDecimal(t) ==
    LET i == FindChar(t, ".", 1)
    IN  /\ i > 1 /\ i < Len(t)
        /\ IsDigits(SubSeq(t, 1, i - 1))
        /\ IsDigits(SubSeq(t, i + 1, Len(t)))

\* json.loads of the text of one value of an object
json_member_value(t) ==
    IF IsDecimal(t) THEN Some([type |-> "float", text |-> t]) ELSE json_scalar(t)

\* the << key, value >> pairs of the pieces '"key": value' of an object body
\* (no comma and no quote inside a key or a value); None when a piece is not
\* of that form
RECURSIVE json_members(_)
json_members(pieces) ==
    IF pieces = << >> THEN Some(<< >>)
    ELSE LET piece == LStrip(pieces[1])
             j == IF Len(piece) >= 2 /\ SubSeq(piece, 1, 1) = Quote
                  THEN FindChar(piece, Quote, 2) ELSE 0
             after == IF j = 0 THEN "" ELSE LStrip(SubSeq(piece, j + 1, Len(piece)))
             value == IF StartsWith(after, ":")
                      THEN json_member_value(Strip(SubSeq(after, 2, Len(after))))
                      ELSE None
             rest == json_members(Tail(pieces))
         IN  IF j = 0 \/ IsNone(value) \/ IsNone(rest) THEN None
             ELSE Some(<< << SubSeq(piece, 2, j - 1), TheVal(value) >> >> \o TheVal(rest))

\* json.loads of a text that starts with '{': the items of the dict, None for
\* JSONDecodeError
json_object(t) ==
    LET s == Strip(t)
    IN  IF Len(s) < 2 \/ SubSeq(s, 1, 1) # "{" \/ SubSeq(s, Len(s), Len(s)) # "}" THEN None
        ELSE LET inner == Strip(SubSeq(s, 2, Len(s) - 1))
             IN  IF inner = "" THEN Some(<< >>) ELSE json_members(Split(inner, ","))

\* str(v)
str(v) ==
    IF v.type = "NoneType" THEN "None"
    ELSE IF v.type = "bool" THEN (IF v.text = "true" THEN "True" ELSE "False")
    ELSE v.text

\* float(v): the repr of the float, None for ValueError or TypeError
float(v) ==
    IF v.type = "float" THEN Some(v.text)
    ELSE IF v.type = "int" THEN Some(v.text \o ".0")
    ELSE IF v.type = "bool" THEN Some(IF v.text = "true" THEN "1.0" ELSE "0.0")
    ELSE IF v.type = "str" /\ IsDecimal(v.text) THEN Some(v.text)
    ELSE IF v.type = "str" /\ Len(v.text) > 0 /\ IsDigits(v.text) THEN Some(v.text \o ".0")
    ELSE None

\* json.dumps of a dict whose values are str or float
RECURSIVE JsonMembers(_)
JsonMembers(items) ==
    IF items = << >> THEN ""
    ELSE LET value == IF items[1][2].type = "str"
                      THEN Quote \o items[1][2].text \o Quote
                      ELSE items[1][2].text
             member == Quote \o items[1][1] \o Quote \o ": " \o value
         IN  IF Len(items) = 1 THEN member ELSE member \o ", " \o JsonMembers(Tail(items))

json_dumps_dict(items) == "{" \o JsonMembers(items) \o "}"

\* {str(k): str(v) for k, v in items}
str_values(items) ==
    [i \in DOMAIN items |-> << items[i][1], [type |-> "str", text |-> str(items[i][2])] >>]

\* {str(k): float(v) for k, v in items}, None when a float(v) raises
float_values(items) ==
    IF \E i \in DOMAIN items : IsNone(float(items[i][2])) THEN None
    ELSE Some([i \in DOMAIN items |->
                  << items[i][1], [type |-> "float", text |-> TheVal(float(items[i][2]))] >>])

\* the text ensure_valid_json_map returns for the items of a dict
dumps_map(field, items) ==
    IF field = "discount" /\ ~IsNone(float_values(items))
    THEN json_dumps_dict(TheVal(float_values(items)))
    ELSE json_dumps_dict(str_values(items))

\* ensure_valid_json_map, the function applied to each cell of a map field
ensure_valid_json_map(field, val) ==
    IF isna(val) \/ val = StrVal("") THEN "{}"
    ELSE IF val.type = "dict" THEN dumps_map(field, val.items)
    ELSE IF val.type = "str"
         THEN IF Strip(val.text) # "" /\ SubSeq(Strip(val.text), 1, 1) = "{"
              THEN LET parsed == json_object(val.text)
                   IN  IF IsNone(parsed) THEN val.text
                       ELSE dumps_map(field, TheVal(parsed))
              ELSE val.text
    ELSE str(val)

\* the value of the two characters of t at i as a number
TwoDigits(t, i) ==
    (FindChar("0123456789", SubSeq(t, i, i), 1) - 1) * 10
        + (FindChar("0123456789", SubSeq(t, i + 1, i + 1), 1) - 1)

\* the text of pattern dd:dd at i of t
IsClock(t, i) ==
    /\ Len(t) >= i + 4
    /\ IsDigits(SubSeq(t, i, i + 1))
    /\ SubSeq(t, i + 2, i + 2) = ":"
    /\ IsDigits(SubSeq(t, i + 3, i + 4))

\* the zone of a time text after its 19 characters: None for a text without
\* zone, Some(the offset in seconds) for 'Z' and for +hh:mm or -hh:mm; the
\* text "raise" when it is neither
zone_of(t) ==
    IF Len(t) = 19 THEN [ok |-> TRUE, tz |-> None]
    ELSE IF SubSeq(t, 20, Len(t)) = "Z" THEN [ok |-> TRUE, tz |-> Some(0)]
    ELSE IF Len(t) = 25 /\ SubSeq(t, 20, 20) \in { "+", "-" } /\ IsClock(t, 21)
         THEN [ok |-> TRUE,
               tz |-> Some((IF SubSeq(t, 20, 20) = "-" THEN -1 ELSE 1)
                               * (TwoDigits(t, 21) * 3600 + TwoDigits(t, 24) * 60))]
    ELSE [ok |-> FALSE, tz |-> None]

\* pd.to_datetime of a text 2025-06-ddThh:mm:ss with or without a zone: the
\* wall-clock time in seconds since 2025-06-01T00:00:00 and the zone; None
\* when the parser raises
to_datetime(t) ==
    IF /\ Len(t) >= 19
       /\ SubSeq(t, 1, 8) = "2025-06-"
       /\ IsDigits(SubSeq(t, 9, 10))
       /\ SubSeq(t, 11, 11) = "T"
       /\ IsClock(t, 12)
       /\ SubSeq(t, 17, 17) = ":"
       /\ IsDigits(SubSeq(t, 18, 19))
       /\ zone_of(t).ok
    THEN Some([wall |-> (TwoDigits(t, 9) - 1) * 86400 + TwoDigits(t, 12) * 3600
                            + TwoDigits(t, 15) * 60 + TwoDigits(t, 18),
               tz |-> zone_of(t).tz])
    ELSE None

\* Series.dt.tz_localize(None): the zone is removed, the wall-clock time stays
tz_localize_none(dt) == [wall |-> dt.wall, tz |-> None]

\* two decimal digits
Pad2(n) == SubSeq("0123456789", (n \div 10) + 1, (n \div 10) + 1)
               \o SubSeq("0123456789", (n % 10) + 1, (n % 10) + 1)

\* dt.strftime('%Y-%m-%dT%H:%M:%S.%f')[:-3] for a time of June 2025
strftime(dt) ==
    "2025-06-" \o Pad2((dt.wall \div 86400) + 1) \o "T" \o Pad2((dt.wall % 86400) \div 3600)
        \o ":" \o Pad2((dt.wall % 3600) \div 60) \o ":" \o Pad2(dt.wall % 60) \o ".000"

\* the time field branch: the parsed value without its zone, as a text; a
\* missing value stays missing, a text that cannot be parsed stays as it is
normalize_time(val) ==
    IF isna(val) THEN NaN
    ELSE IF val.type # "str" \/ IsNone(to_datetime(val.text)) THEN val
    ELSE LET parsed == TheVal(to_datetime(val.text))
         IN  StrVal(strftime(IF ~IsNone(parsed.tz) THEN tz_localize_none(parsed)
                             ELSE parsed))

\* _process_data_types on a frame of one column and one row: the cell afterwards
process_data_types(column, val) ==
    IF column \in STRING_COLUMNS THEN StrVal(IF isna(val) THEN "" ELSE str(val))
    ELSE IF column \in TIME_FIELDS THEN normalize_time(val)
    ELSE IF column \in MAP_FIELDS
         THEN StrVal(ensure_valid_json_map(column, IF isna(val) THEN StrVal("{}") ELSE val))
    ELSE val

(***************************************************************************)
(* The converter called directly: convert_csv_to_parquet and               *)
(* _process_data_file on the data objects of account 111, with each of the *)
(* calls they make raising, in the temporary directory and on the          *)
(* destination store the earlier calls left.                               *)
(***************************************************************************)
\* number of direct calls of the converter in one behaviour
MaxConversions == 2

\* the calls that raise during one call of the converter
RaiseChoices ==
    { { } } \cup { { c } : c \in ConvertCalls }
            \cup { { "read_csv", "unlink_csv" }, { "write_table", "unlink_parquet" } }

\* the contents handed to the converter
CsvContents == { "csv", "corrupt" }

\* the source keys handed to _process_data_file
SourceKeys == { K1, K2, K3, K4 }

\* the calls of _process_data_file: the source key, the calls that raise in
\* the converter and whether put_object raises
DataFileCalls ==
    { << k, r, FALSE >> : k \in { K1, K2 }, r \in RaiseChoices }
        \cup { << k, { }, p >> : k \in SourceKeys, p \in BOOLEAN }

\* converter.convert_csv_to_parquet(csv_content)
ConvertCsvToParquet(csv_content, raises) ==
    /\ clock < MaxConversions
    /\ clock' = clock + 1
    /\ LET call == convert_csv_to_parquet(csv_content, raises, tmp_files)
       IN  /\ tmp_files' = call.tmp
           /\ conv_call' = Some([op |-> "convert_csv_to_parquet",
                                 input |-> csv_content,
                                 raises |-> raises,
                                 tmp_before |-> tmp_files,
                                 dest_before |-> dest,
                                 out |-> call])
    /\ UNCHANGED << run, pc, args, exit_code, orch, att, ret, stores, env, log, visited,
                    results, listings, db_call, unrecorded, environ, interrupted >>

\* converter._process_data_file(account, source_key, target_key) with the
\* target key _process_manifest computes for the source key
ProcessOneDataFile(source_key, raises, put_raises) ==
    /\ clock < MaxConversions
    /\ clock' = clock + 1
    /\ LET target_key == get_target_key(Acct1, "hourly", source_key)
           call == process_data_file(Acct1, source_key, raises, put_raises,
                                     environ.PARQUET_BUCKET, tmp_files)
       IN  /\ ~IsNone(target_key)
           /\ tmp_files' = call.tmp
           /\ dest' = IF call.result THEN dest \cup { TheVal(target_key) } ELSE dest
           /\ conv_call' = Some([op |-> "_process_data_file",
                                 input |-> source_key,
                                 raises |-> raises,
                                 tmp_before |-> tmp_files,
                                 dest_before |-> dest,
                                 out |-> call])
    /\ UNCHANGED << run, pc, args, exit_code, orch, att, ret, manifests, ledger, env,
                    log, visited, results, listings, db_call, unrecorded, environ,
                    interrupted >>

\* the cells handed to _process_data_types: the column and the value
MapCells ==
    { << "product", v >> :
          v \in { NaN, StrVal(""), StrVal("abc"), StrVal("[1, 2]"), StrVal("{abc"),
                  StrVal("{'a': 1}"), StrVal("{}"), StrVal("{\"a\": \"b\"}"),
                  StrVal("{\"a\": 0.5, \"b\": null}"), FloatVal("1.5"), DictVal(<< >>),
                  DictVal(<< << "a", [type |-> "str", text |-> "b"] >> >>) } }
        \cup
    { << "discount", v >> :
          v \in { StrVal("12"), StrVal("{\"a\": }"), StrVal(" {\"a\": 1}"),
                  StrVal("{\"a\": 0.5, \"b\": null}"),
                  DictVal(<< << "a", [type |-> "int", text |-> "1"] >>,
                             << "b", [type |-> "NoneType", text |-> "null"] >> >>) } }

TimeCells ==
    { << f, v >> : f \in { "line_item_usage_start_date" },
                   v \in { NaN, StrVal("not a date"), StrVal("2025-06-10T10:00:00"),
                           StrVal("2025-06-10T10:00:00Z"), StrVal("2025-06-10T10:00:00+00:00"),
                           StrVal("2025-06-10T10:30:15+02:00"),
                           StrVal("2025-06-10T23:00:00-05:00"),
                           StrVal("2025-06-11T01:00:00+05:30") } }

OtherCells ==
    { << "bill_invoice_id", NaN >>, << "bill_invoice_id", FloatVal("12345.0") >>,
      << "bill_invoice_id", StrVal("INV-1") >>, << "line_item_unblended_cost", FloatVal("0.5") >> }

\* converter._process_data_types(df) for a frame of one cell
ProcessDataTypes(column, val) ==
    /\ clock < MaxConversions
    /\ clock' = clock + 1
    /\ conv_call' = Some([op |-> "_process_data_types",
                          input |-> [column |-> column, value |-> val],
                          raises |-> { },
                          tmp_before |-> tmp_files,
                          dest_before |-> dest,
                          out |-> process_data_types(column, val)])
    /\ UNCHANGED << run, pc, args, exit_code, orch, att, ret, stores, env, log, visited,
                    results, listings, db_call, unrecorded, environ, tmp_files,
                    interrupted >>

InitConv == Init /\ manifests = ManifestsInit(Body(<< Str(K1), Str(K3) >>))

NextConv ==
    \/ \E csv_content \in CsvContents, raises \in RaiseChoices :
         ConvertCsvToParquet(csv_content, raises)
    \/ \E call \in DataFileCalls : ProcessOneDataFile(call[1], call[2], call[3])
    \/ \E cell \in MapCells \cup TimeCells \cup OtherCells :
         ProcessDataTypes(cell[1], cell[2])

SpecConv == InitConv /\ [][NextConv]_vars

TypeOK ==
    /\ run \in 0..MaxRuns
    /\ faults \in 0..MaxFaults
    /\ rewrites \in 0..MaxRewrites


(***************************************************************************)
(* Properties.                                                             *)
(***************************************************************************)
\* the ledger row of the manifest being processed, None if there is none
LedgerRow == get_processed_manifest(ledger, account.account_id, att.manifest_path)

\* a call of _process_manifest is in progress or has just returned
InAttempt == pc \in { "probe", "lookup", "read", "file", "reconcile", "record", "returned" }

\* the metadata probe of the call succeeded
Probed == InAttempt /\ ~IsNone(att.manifest_last_modified)

\* seconds between a stored modification time and the probed one
Drift(row) == Abs(row.manifest_last_modified.secs - TheVal(att.manifest_last_modified).secs)

\* C1: without force, when the ledger lookup returned a 'success' record whose
\* stored manifest_last_modified equals the probed last-modified time, the call
\* returns True without reading the manifest, converting or uploading anything.
C1_FreshnessSkip ==
    (/\ InAttempt
     /\ ~args.force
     /\ ~IsNone(att.processed)
     /\ TheVal(att.processed).status = "success"
     /\ Drift(TheVal(att.processed)) = 0)
    => (/\ pc = "returned"
        /\ ret = TRUE
        /\ ~log.entered
        /\ log.conversions = 0
        /\ log.puts = 0
        /\ log.uploaded = { })

C1_Witness ==
    /\ pc = "returned"
    /\ ~args.force
    /\ ~IsNone(att.processed)
    /\ TheVal(att.processed).status = "success"
    /\ Drift(TheVal(att.processed)) = 0
    /\ ret = TRUE

\* C2: without force, once the ledger has been consulted for a probed manifest,
\* the manifest is read (PROCESS is entered) whenever the ledger holds no row
\* for (account id, manifest path), or the row's status is not 'success', or
\* its stored modification time is more than 1 second from the probed one.
C2_ChangeDetection ==
    (/\ Probed
     /\ ~args.force
     /\ log.consulted
     /\ \/ IsNone(LedgerRow)
        \/ TheVal(LedgerRow).status # "success"
        \/ Drift(TheVal(LedgerRow)) > 1)
    => (pc = "read" \/ log.entered)

C2_Witness ==
    /\ Probed
    /\ ~args.force
    /\ log.consulted
    /\ log.entered
    /\ pc = "file"
    /\ ~IsNone(LedgerRow)
    /\ TheVal(LedgerRow).status = "success"
    /\ Drift(TheVal(LedgerRow)) > 1

\* C3: with force, a call whose metadata probe succeeded never consults the
\* ledger and goes on to read the manifest, whatever row the ledger holds.
C3_ForcedReprocessing ==
    (Probed /\ args.force)
    => (/\ ~log.consulted
        /\ IsNone(att.processed)
        /\ pc # "lookup"
        /\ (pc = "read" \/ log.entered))

C3_Witness ==
    /\ pc = "file"
    /\ args.force
    /\ log.entered
    /\ ~IsNone(LedgerRow)
    /\ TheVal(LedgerRow).status = "success"
    /\ Drift(TheVal(LedgerRow)) = 0


\* the directory _get_target_key uploads the files of the manifest into
UploadDir ==
    report_type \o "/ID=" \o account.account_id \o "/cid-cur2/data/" \o BP
    \o TheVal(att.partition) \o "/"

\* index of the last occurrence of c in s, 0 if none
RECURSIVE LastIndexOf(_, _, _)
LastIndexOf(s, c, i) ==
    IF i = 0 THEN 0
    ELSE IF SubSeq(s, i, i) = c THEN i
    ELSE LastIndexOf(s, c, i - 1)

\* the last path segment of a key
LastSegment(k) == SubSeq(k, LastIndexOf(k, "/", Len(k)) + 1, Len(k))

\* C4: when a processed manifest has been reconciled, every object in the
\* directory its files are uploaded into carries an expected file name: an
\* object left there by an earlier run for a data file that is no longer in the
\* manifest has been deleted.
C4_StaleFilesRemoved ==
    (pc \in { "record", "returned" } /\ log.reconciled)
    => \A k \in dest :
         StartsWith(k, UploadDir) => LastSegment(k) \in Range(att.expected_files)

SomeFileFailed == \E i \in DOMAIN log.file_results : ~log.file_results[i]
AllFilesSucceeded ==
    /\ Len(log.file_results) = Len(att.data_files)
    /\ \A i \in DOMAIN log.file_results : log.file_results[i]

\* C6: a call that processed data files returns False and records 'error' if
\* at least one data file failed, and returns True or records 'success' only
\* if every data file of the manifest succeeded.
C6_ManifestOutcome ==
    (pc = "returned" /\ log.entered)
    => (/\ SomeFileFailed => ret = FALSE
        /\ ret = TRUE => AllFilesSucceeded
        /\ ~IsNone(log.upsert) =>
             LET row == TheVal(log.upsert).row
             IN  /\ SomeFileFailed => row.status = "error"
                 /\ row.status = "success" => AllFilesSucceeded
                 /\ TheVal(log.upsert).ok =>
                      /\ ~IsNone(LedgerRow)
                      /\ TheVal(LedgerRow).status = row.status)

C6_Witness ==
    /\ pc = "returned"
    /\ SomeFileFailed
    /\ \E i \in DOMAIN log.file_results : log.file_results[i]
    /\ ~IsNone(LedgerRow)
    /\ TheVal(LedgerRow).status = "error"
    /\ ret = FALSE

\* C7: a call that found data files in the manifest processes every one of
\* them, whatever fails for a single file, and then reconciles and records.
C7_PerFileIsolation ==
    (pc = "returned" /\ log.entered /\ att.data_files # << >>)
    => (/\ Len(log.file_results) = Len(att.data_files)
        /\ log.reconciled
        /\ ~IsNone(log.upsert))

\* the call processed two data files: the first failed in conversion, the
\* second was converted and uploaded, and the ledger write succeeded
PartialFailure ==
    /\ pc = "returned"
    /\ Len(att.data_files) = 2
    /\ fetch_and_convert(account, att.data_files[1]) = "unconverted"
    /\ log.file_results = << FALSE, TRUE >>
    /\ ~IsNone(log.upsert)
    /\ TheVal(log.upsert).ok

\* C8 as claimed: after a partial failure the ledger row is an 'error' whose
\* expected-files list holds only the name derived from the successful file.
C8_PartialFailureOnlySuccessful ==
    PartialFailure
    => (/\ Cardinality(log.uploaded) = 1
        /\ TheVal(LedgerRow).status = "error"
        /\ json_loads(TheVal(LedgerRow).expected_files) =
               Some(<< LastSegment(CHOOSE k \in log.uploaded : TRUE) >>))

\* C8 amended: after a partial failure one target object was produced and the
\* ledger row is an 'error' whose expected-files list holds the names derived
\* from both data files, the failed one included, in manifest order.
C8_PartialFailureAllNames ==
    PartialFailure
    => (/\ Cardinality(log.uploaded) = 1
        /\ log.uploaded \subseteq dest
        /\ TheVal(LedgerRow).status = "error"
        /\ LET names == json_loads(TheVal(LedgerRow).expected_files)
           IN  /\ ~IsNone(names)
               /\ Len(TheVal(names)) = 2
               /\ TheVal(names)[1] # TheVal(names)[2]
               /\ TheVal(names)[2] = LastSegment(CHOOSE k \in log.uploaded : TRUE)
               /\ TheVal(names)[1] = SubSeq(Md5Hex(att.data_files[1]), 17, 32) \o ".parquet")

C8_Witness == PartialFailure /\ TheVal(LedgerRow).status = "error"


\* the (account id, tier, partition) triples a command line selects, in order
RECURSIVE VisitsOfPeriods(_, _, _)
VisitsOfPeriods(acct, tier, periods) ==
    IF periods = << >> THEN << >>
    ELSE << << acct.account_id, tier, periods[1] >> >>
         \o VisitsOfPeriods(acct, tier, Tail(periods))

RECURSIVE VisitsOfTypes(_, _, _)
VisitsOfTypes(acct, types, a) ==
    IF types = << >> THEN << >>
    ELSE VisitsOfPeriods(acct, types[1][1], list_billing_periods(acct, types[1][2], a.path))
         \o VisitsOfTypes(acct, Tail(types), a)

RECURSIVE VisitsOfAccounts(_, _)
VisitsOfAccounts(accts, a) ==
    IF accts = << >> THEN << >>
    ELSE VisitsOfTypes(accts[1], select_report_types(accts[1], a.path, a.tier, 1), a)
         \o VisitsOfAccounts(Tail(accts), a)

SelectedVisits(a) ==
    VisitsOfAccounts(get_filtered_accounts(ExportsTable, a.payer, a.tier), a)

\* the run went through process_cur_files and has exited
RunExited == pc = "idle" /\ exit_code \in { Some(0), Some(1) }

\* C9: at the end of a run every selected (account, tier, partition) has been
\* attempted exactly once, in order, whatever the attempts returned.
C9_SiblingIsolation ==
    RunExited
    => (/\ visited = SelectedVisits(args)
        /\ Len(results) = Len(visited)
        /\ \A i, j \in DOMAIN visited : visited[i] = visited[j] => i = j)

C9_Witness ==
    /\ RunExited
    /\ Len(visited) = 4
    /\ results[1] = FALSE
    /\ visited[2][1] = visited[1][1] /\ visited[2][2] = visited[1][2]
    /\ visited[3][1] = visited[1][1] /\ visited[3][2] # visited[1][2]
    /\ visited[4][1] # visited[1][1]
    /\ results[4] = TRUE

\* C10 as claimed: the exit code is 0 exactly when every _process_manifest call
\* of the run returned True, and 1 otherwise.
C10_ExitSignalConjunction ==
    RunExited
    => (exit_code = Some(0) <=> \A i \in DOMAIN results : results[i])

\* C10 amended: the exit code is 0 exactly when at least one account matched
\* the filters of the run and every _process_manifest call returned True; it
\* is 1 when no account matched or some call returned False.
C10_ExitSignal ==
    RunExited
    => (exit_code = Some(0) <=>
            (/\ get_filtered_accounts(ExportsTable, args.payer, args.tier) # << >>
             /\ \A i \in DOMAIN results : results[i]))

C10_Witness ==
    /\ RunExited
    /\ exit_code = Some(0)
    /\ Len(results) = 4


\* the first path segment of a key that starts with BILLING_PERIOD=
PeriodSegment(key) ==
    LET parts == Split(key, "/")
        idx == { i \in DOMAIN parts : StartsWith(parts[i], BP) }
    IN  parts[CHOOSE i \in idx : \A j \in idx : i <= j]

\* the last 16 hexadecimal digits of the MD5 digest of a key
Hash16(key) == LET d == Md5Hex(key) IN SubSeq(d, Len(d) - 15, Len(d))

\* the key the claim gives for (report tier, account id, source key)
TargetKeyForm(tier, account_id, source_key) ==
    tier \o "/ID=" \o account_id \o "/cid-cur2/data/" \o PeriodSegment(source_key)
    \o "/" \o Hash16(source_key) \o ".parquet"

\* a step of the loop over the data files that uploaded the file
FileUploaded ==
    /\ pc = "file"
    /\ Len(log'.file_results) = Len(log.file_results) + 1
    /\ log'.file_results[Len(log'.file_results)]

\* C11: the object a data file is uploaded to is
\* <tier>/ID=<account_id>/cid-cur2/data/<BILLING_PERIOD=... segment of the
\* source key>/<hash16(source key)>.parquet, a function of (tier, account id,
\* source key) only; the upload adds that one key to the destination store and,
\* when the key is already there, overwrites it without adding an object.
C11_DeterministicTargetKey ==
    [][FileUploaded =>
        LET k == TargetKeyForm(report_type, account.account_id, att.data_files[att.fi])
        IN  /\ dest' = dest \cup { k }
            /\ log'.uploaded = log.uploaded \cup { k }
            /\ k \in dest => Cardinality(dest') = Cardinality(dest)]_vars

\* a data file of a manifest an earlier run recorded as a success has been
\* uploaded again
C11_Witness ==
    /\ pc = "reconcile"
    /\ log.uploaded # { }
    /\ ~IsNone(LedgerRow)
    /\ TheVal(LedgerRow).status = "success"
    /\ TheVal(LedgerRow).processed_at < clock
    /\ \A k \in log.uploaded :
         /\ LastSegment(k) \in Range(TheVal(json_loads(TheVal(LedgerRow).expected_files)))
         /\ k \in dest

\* int() of a text of decimal digits
RECURSIVE Number(_)
Number(t) ==
    IF Len(t) = 0 THEN 0
    ELSE Number(SubSeq(t, 1, Len(t) - 1)) * 10
         + (FindChar("0123456789", SubSeq(t, Len(t), Len(t)), 1) - 1)

\* a text of the form YYYY-MM
IsYearMonth(v) ==
    /\ Len(v) = 7
    /\ IsDigits(SubSeq(v, 1, 4))
    /\ SubSeq(v, 5, 5) = "-"
    /\ IsDigits(SubSeq(v, 6, 7))

\* the number of the calendar month YYYY-MM
MonthIndex(v) == Number(SubSeq(v, 1, 4)) * 12 + Number(SubSeq(v, 6, 7))

\* the YYYY-MM of a partition BILLING_PERIOD=YYYY-MM
PeriodOf(partition) == SubSeq(partition, Len(BP) + 1, Len(partition))

\* the directory name of a common prefix '<...>/<name>/'
DirName(prefix) == LET parts == Split(prefix, "/") IN parts[Len(parts) - 1]

\* the BILLING_PERIOD=YYYY-MM partitions among the common prefixes of a response
Discovered(common_prefixes) ==
    { DirName(common_prefixes[i]) : i \in
        { j \in DOMAIN common_prefixes :
            /\ StartsWith(DirName(common_prefixes[j]), BP)
            /\ IsYearMonth(PeriodOf(DirName(common_prefixes[j]))) } }

\* a step of _process_account that issued a listing
Listed == pc = "tier" /\ Len(listings') = Len(listings) + 1

\* C12: without a path filter, the partitions _list_billing_periods returns are
\* exactly the BILLING_PERIOD=YYYY-MM partitions of the listing response whose
\* month is not later than the current calendar month, each once; no partition
\* later than the current month is attempted.
C12_FutureFilter ==
    [][/\ Listed =>
            LET response == listings'[Len(listings')].CommonPrefixes
                returned == IF pc' = "partition" THEN billing_periods' ELSE << >>
                expected == { d \in Discovered(response) :
                                MonthIndex(PeriodOf(d)) <= MonthIndex(CurrentPeriod) }
            IN  /\ Range(returned) = expected
                /\ Len(returned) = Cardinality(expected)
       /\ IsNone(args'.path) =>
            \A i \in DOMAIN visited' :
                MonthIndex(PeriodOf(visited'[i][3])) <= MonthIndex(CurrentPeriod)]_vars

C12_Witness ==
    /\ pc = "partition"
    /\ IsNone(args.path)
    /\ "BILLING_PERIOD=2025-07" \in Discovered(listings[Len(listings)].CommonPrefixes)
    /\ billing_periods = << "BILLING_PERIOD=2025-06", "BILLING_PERIOD=2025-05" >>

\* C13: within one run and one (account, report tier), a manifest attempted
\* later is the manifest of a strictly older billing period.
C13_VisitOrder ==
    \A i, j \in DOMAIN visited :
        (i < j /\ visited[i][1] = visited[j][1] /\ visited[i][2] = visited[j][2])
        => MonthIndex(PeriodOf(visited[j][3])) < MonthIndex(PeriodOf(visited[i][3]))

C13_Witness ==
    /\ Len(visited) >= 2
    /\ visited[1][1] = visited[2][1]
    /\ visited[1][2] = visited[2][2]
    /\ visited[1][3] = "BILLING_PERIOD=2025-06"
    /\ visited[2][3] = "BILLING_PERIOD=2025-05"
    /\ Len(results) >= 2

\* the (account id, tier, partition) triples of a run pinned to a partition
RECURSIVE PinnedOfTypes(_, _, _)
PinnedOfTypes(acct, types, partition) ==
    IF types = << >> THEN << >>
    ELSE << << acct.account_id, types[1][1], partition >> >>
         \o PinnedOfTypes(acct, Tail(types), partition)

RECURSIVE PinnedOfAccounts(_, _)
PinnedOfAccounts(accts, a) ==
    IF accts = << >> THEN << >>
    ELSE PinnedOfTypes(accts[1], select_report_types(accts[1], a.path, a.tier, 1),
                       TheVal(a.path))
         \o PinnedOfAccounts(Tail(accts), a)

\* C14: in a run with a path filter no listing is issued, every manifest
\* attempted is the manifest of the pinned partition, taken as given, and at
\* the end of the run exactly one manifest has been attempted for every
\* selected (account, report tier).
C14_PinnedPartition ==
    ~IsNone(args.path)
    => (/\ listings = << >>
        /\ \A i \in DOMAIN visited : visited[i][3] = TheVal(args.path)
        /\ InAttempt =>
             att.manifest_path =
                 account.prefix \o "/" \o report_name \o "/metadata/"
                 \o TheVal(args.path) \o "/" \o report_name \o "-Manifest.json"
        /\ RunExited =>
             visited = PinnedOfAccounts(
                           get_filtered_accounts(ExportsTable, args.payer, args.tier), args))

C14_Witness ==
    /\ RunExited
    /\ args.path = Some("BILLING_PERIOD=2025-07")
    /\ MonthIndex(PeriodOf(TheVal(args.path))) > MonthIndex(CurrentPeriod)
    /\ visited = << << "111", "hourly", "BILLING_PERIOD=2025-07" >>,
                    << "222", "hourly", "BILLING_PERIOD=2025-07" >> >>
    /\ results = << TRUE, FALSE >>

\* C15: every listing hands its caller everything the store holds under the
\* prefix: the common prefixes of a partition discovery are all the common
\* prefixes of the metadata directory, and the keys reconciliation has listed
\* are all the keys under its prefix.
C15_CompleteListings ==
    /\ \A i \in DOMAIN listings :
         listings[i].CommonPrefixes =
             AllCommonPrefixes(listings[i].Bucket, listings[i].Prefix)
    /\ (pc = "record" /\ log.reconciled) =>
         \A k \in dest :
             StartsWith(k, cleanup_prefix(account, report_type, TheVal(att.partition)))
             => k \in log.listed

\* C16: a call of _process_manifest that was not skipped by the freshness rule
\* has, when it returns, upserted the Processing Record of (account id,
\* manifest path) with the outcome of the attempt.
C16_LedgerRecordPerAttempt ==
    (pc = "returned" /\ log.entered)
    => (/\ ~IsNone(log.upsert)
        /\ TheVal(log.upsert).row.account_id = account.account_id
        /\ TheVal(log.upsert).row.manifest_path = att.manifest_path
        /\ TheVal(log.upsert).row.status = manifest_status(ret))

\* a step that is a direct call of update_processed_manifest
DBCall == clock' = clock + 1 /\ db_call' # db_call /\ ~IsNone(db_call')

\* the rows of a table with a ledger key
RowsOf(table, account_id, manifest_path) ==
    { r \in table : r.account_id = account_id /\ r.manifest_path = manifest_path }

\* a path has a segment BILLING_PERIOD=<value>
HasPeriodSegment(path) ==
    LET parts == Split(path, "/")
    IN  \E i \in DOMAIN parts : StartsWith(parts[i], BP) /\ Len(parts[i]) > Len(BP)

\* C18: a call of update_processed_manifest with a manifest path that has no
\* BILLING_PERIOD=... segment returns False and leaves the table as it was; a
\* call that writes a row stores as manifest_partition the BILLING_PERIOD=...
\* segment of the manifest path, whatever partition the caller passed.
C18_UpsertRejectsPathWithoutPartition ==
    [][DBCall =>
        LET call == TheVal(db_call')
            kwargs == call.kwargs
        IN  /\ ~HasPeriodSegment(kwargs.manifest_path) =>
                 (~call.result /\ ledger' = ledger)
            /\ call.result =>
                 \A r \in RowsOf(ledger', kwargs.account_id, kwargs.manifest_path) :
                     r.manifest_partition = PeriodSegment(kwargs.manifest_path)]_vars

C18_Witness ==
    /\ ~IsNone(db_call)
    /\ ~TheVal(db_call).result
    /\ ~TheVal(db_call).db_error
    /\ TheVal(db_call).kwargs.manifest_path = "cur/hr/metadata/hr-Manifest.json"
    /\ \E r \in ledger :
         /\ r.manifest_partition = "BILLING_PERIOD=2025-06"
         /\ r.manifest_partition # TheVal(db_call).kwargs.manifest_partition

\* C19: a call of update_processed_manifest writes a row only when
\* expected_files is the text of a JSON list whose elements are all strings
\* ending in '.parquet' (or is not passed, which stands for the empty list);
\* with a text of any other shape, or a value that is not a str, the call
\* returns False and leaves the table as it was.
C19_UpsertValidatesExpectedFiles ==
    [][DBCall =>
        LET call == TheVal(db_call')
            expected_files == call.kwargs.expected_files
            valid == \/ expected_files.type = "absent"
                     \/ /\ expected_files.type = "str"
                        /\ expected_files.text \in ValidExpectedFiles
        IN  /\ ledger' # ledger => valid
            /\ call.result => valid
            /\ ~valid => (~call.result /\ ledger' = ledger)
            /\ (call.result /\ expected_files.type = "str") =>
                 \A r \in RowsOf(ledger', call.kwargs.account_id,
                                 call.kwargs.manifest_path) :
                     r.expected_files = expected_files.text]_vars

C19_Witness ==
    /\ ~IsNone(db_call)
    /\ ~TheVal(db_call).result
    /\ ~TheVal(db_call).db_error
    /\ HasPeriodSegment(TheVal(db_call).kwargs.manifest_path)
    /\ TheVal(db_call).kwargs.expected_files = StrArg("[\"a.parquet\", 5]")
    /\ \E r \in ledger : r.expected_files = "[\"a.parquet\", \"b.parquet\"]"

\* the table holds at most one row per (account id, manifest path)
OneRowPerKey ==
    \A r1, r2 \in ledger :
        (r1.account_id = r2.account_id /\ r1.manifest_path = r2.manifest_path)
        => r1 = r2

\* C20: the table never holds two rows with the same (account id, manifest
\* path); a call that succeeds leaves for its key one row carrying the status,
\* error message, processed-at, manifest modification time and expected files
\* of the call, and leaves every row with another key as it was.
C20_UpsertIdentity ==
    /\ []OneRowPerKey
    /\ [][(DBCall /\ TheVal(db_call').result) =>
            LET kwargs == TheVal(db_call').kwargs
                new == RowsOf(ledger', kwargs.account_id, kwargs.manifest_path)
            IN  /\ Cardinality(new) = 1
                /\ \A r \in new :
                     /\ r.status = kwargs.status
                     /\ r.error_message = kwargs.error_message
                     /\ r.processed_at = clock'
                     /\ r.manifest_last_modified.secs = kwargs.manifest_last_modified.secs
                     /\ r.expected_files =
                            (IF kwargs.expected_files.type = "absent" THEN "[]"
                             ELSE kwargs.expected_files.text)
                /\ ledger' \ new =
                       ledger \ RowsOf(ledger, kwargs.account_id, kwargs.manifest_path)]_vars

C20_Witness ==
    /\ ~IsNone(db_call)
    /\ TheVal(db_call).result
    /\ ~IsNone(TheVal(db_call).before)
    /\ TheVal(TheVal(db_call).before).status # TheVal(db_call).kwargs.status
    /\ TheVal(TheVal(db_call).before).expected_files
           # TheVal(db_call).kwargs.expected_files.text
    /\ Cardinality(ledger) = 2

\* the failed ledger writes of earlier attempts on the manifest being
\* processed, made when the manifest had the modification time it has now
FailedWrites ==
    { u \in unrecorded :
        /\ u.account_id = account.account_id
        /\ u.manifest_path = att.manifest_path
        /\ u.manifest_last_modified = TheVal(att.manifest_last_modified) }

\* a non-forced attempt has consulted the ledger for a manifest that is
\* unchanged since an attempt whose ledger write failed
AfterFailedWrite ==
    /\ InAttempt
    /\ ~args.force
    /\ log.consulted
    /\ IsNone(log.upsert)
    /\ FailedWrites # { }

\* C17 as claimed: after an attempt whose ledger write failed, a non-forced
\* run that finds the manifest unchanged processes the manifest again.
C17_FailedUpsertRetried ==
    AfterFailedWrite => (pc = "read" \/ log.entered)

\* C17 amended: an attempt whose ledger write failed leaves the ledger row of
\* the manifest as it was before the attempt; a non-forced run that finds the
\* manifest unchanged processes it again, unless that earlier row is a
\* 'success' with the same modification time, in which case it is skipped.
C17_FailedUpsertUnrecorded ==
    AfterFailedWrite =>
        \A u \in FailedWrites :
            LET skipped == /\ ~IsNone(att.processed)
                           /\ TheVal(att.processed).status = "success"
                           /\ Drift(TheVal(att.processed)) < 1
            IN  /\ LedgerRow = u.before
                /\ ~IsNone(att.processed) => att.processed = u.before
                /\ skipped => (pc = "returned" /\ ret = TRUE /\ ~log.entered)
                /\ ~skipped => (pc = "read" \/ log.entered)

C17_Witness ==
    /\ AfterFailedWrite
    /\ pc = "file"
    /\ \E u \in FailedWrites : IsNone(u.before)
    /\ IsNone(LedgerRow)
    /\ IsNone(att.processed)

(***************************************************************************)
(* C21: a manifest that is missing.                                        *)
(***************************************************************************)
\* the object the metadata probe asks for does not exist
ManifestAbsent ==
    \/ << account.bucket, att.manifest_path >> \notin DOMAIN manifests
    \/ IsNone(manifests[<< account.bucket, att.manifest_path >>])

\* _process_manifest has returned from the metadata probe
ReturnedFromProbe ==
    pc = "returned" /\ att.manifest_path # "" /\ IsNone(att.manifest_last_modified)

\* C21: when the metadata probe of the computed manifest path finds no object,
\* _process_manifest returns False at once: the manifest is not read, nothing
\* is converted, uploaded or deleted, the ledger is not consulted nor written;
\* the partition counts as failed and the loop goes on to the next partition.
C21_MissingManifest ==
    /\ [][(pc = "probe" /\ pc' # pc /\ ManifestAbsent) =>
              /\ pc' = "returned"
              /\ ret' = FALSE
              /\ log' = NoLog
              /\ UNCHANGED << manifests, dest, ledger, unrecorded >>]_vars
    /\ [](ReturnedFromProbe => (~ret /\ log = NoLog))
    /\ [][(ReturnedFromProbe /\ pc' # pc) =>
              /\ pc' = "partition"
              /\ bi' = bi + 1
              /\ ~account_success'
              /\ results' = Append(results, FALSE)
              /\ UNCHANGED << dest, ledger, unrecorded, run, exit_code >>]_vars

C21_Witness ==
    /\ ReturnedFromProbe
    /\ ManifestAbsent
    /\ ~ret
    /\ Len(visited) = 2
    /\ results = << TRUE >>

(***************************************************************************)
(* C22, C23: the converter.                                                *)
(***************************************************************************)
\* the last direct call was a call of op
Called(op) == ~IsNone(conv_call) /\ TheVal(conv_call).op = op

\* a call made while parsing, normalizing or serializing raised, or the
\* content could not be parsed
ConversionRaised(call) ==
    \/ call.raises \cap { "csv_tmp", "write", "parquet_tmp", "read_csv", "from_pandas",
                          "write_table", "read" } # { }
    \/ call.input \in { "corrupt", K2 }

\* C22: an exception raised while the source content is parsed, normalized or
\* serialized makes convert_csv_to_parquet return None, and no exception
\* leaves the call; _process_data_file turns the None into the result False
\* without calling put_object, so the destination store is as it was, and
\* returns to the loop over the data files.
C22_ConversionFailureIsPerFile ==
    /\ (Called("convert_csv_to_parquet") /\ ConversionRaised(TheVal(conv_call))) =>
           /\ IsNone(TheVal(conv_call).out.result)
           /\ ~TheVal(conv_call).out.raised
    /\ (Called("_process_data_file") /\ TheVal(conv_call).out.converted
            /\ ConversionRaised(TheVal(conv_call))) =>
           /\ IsNone(TheVal(conv_call).out.conversion.result)
           /\ ~TheVal(conv_call).out.conversion.raised
           /\ ~TheVal(conv_call).out.put
           /\ TheVal(conv_call).out.result = FALSE
           /\ dest = TheVal(conv_call).dest_before

C22_Witness ==
    /\ Called("_process_data_file")
    /\ TheVal(conv_call).input = K1
    /\ TheVal(conv_call).raises = { "write_table" }
    /\ ~TheVal(conv_call).out.result
    /\ TheVal(get_target_key(Acct1, "hourly", K1)) \notin dest
    /\ clock = 2

\* C23: after a call of convert_csv_to_parquet has returned, none of the
\* temporary files the call created exists, whichever way the call ended.
C23_TemporaryFilesRemoved ==
    Called("convert_csv_to_parquet") =>
        TheVal(conv_call).out.created \cap tmp_files = { }

(***************************************************************************)
(* C26, C27: _process_data_types.                                          *)
(***************************************************************************)
\* the cell handed to the last direct call of _process_data_types
CellIn == TheVal(conv_call).input

\* the cell that call left
CellOut == TheVal(conv_call).out

\* C26: whatever the value of a map field is (missing, empty text, a text
\* that is not an encoded structure, a text starting with '{' that cannot be
\* parsed, an encoded structure, a dict), the value _process_data_types
\* leaves is a text that decodes to a key-to-value structure.
C26_MapFieldClosure ==
    (Called("_process_data_types") /\ CellIn.column \in MAP_FIELDS) =>
        /\ CellOut.type = "str"
        /\ ~IsNone(json_object(CellOut.text))

\* the time a normalized text stands for when read as a zone-naive time
NaiveInstant(text) ==
    IF Len(text) = 23 /\ SubSeq(text, 20, 23) = ".000"
    THEN to_datetime(SubSeq(text, 1, 19))
    ELSE None

\* C27: for a time field given as a wall-clock time with a zone offset, the
\* zone-naive value _process_data_types leaves is the wall-clock time minus
\* the offset: the UTC instant of the input.
C27_TimeInstantPreserved ==
    (/\ Called("_process_data_types")
     /\ CellIn.column \in TIME_FIELDS
     /\ CellIn.value.type = "str"
     /\ ~IsNone(to_datetime(CellIn.value.text))
     /\ ~IsNone(TheVal(to_datetime(CellIn.value.text)).tz)) =>
        LET given == TheVal(to_datetime(CellIn.value.text))
        IN  /\ CellOut.type = "str"
            /\ ~IsNone(NaiveInstant(CellOut.text))
            /\ TheVal(NaiveInstant(CellOut.text)).wall = given.wall - TheVal(given.tz)

(***************************************************************************)
(* C24: a run that is killed.                                              *)
(***************************************************************************)
\* the killed attempts on the manifest being processed
Interruption ==
    { i \in interrupted : /\ i.account_id = account.account_id
                          /\ i.manifest_path = att.manifest_path }

\* the ledger is written only by the RECORD step, after the loop over the
\* data files and the reconciliation, and a kill leaves the ledger as it is
LedgerWrittenInRecordOnly ==
    /\ [][ledger' # ledger =>
              /\ pc = "record"
              /\ pc' = "returned"
              /\ log.reconciled
              /\ Len(log.file_results) = Len(att.data_files)]_vars
    /\ [][(pc \in AttemptPcs /\ pc' = "idle") =>
              /\ ledger' = ledger
              /\ \E i \in interrupted' : i.at = pc /\ i.row = LedgerRow]_vars

\* the ledger lookup of a non-forced attempt on a manifest an earlier attempt
\* was killed on
LookupAfterKill ==
    pc = "lookup" /\ pc' \in { "read", "returned" } /\ ~args.force /\ Interruption # { }

\* C24 as claimed: the ledger is written only in RECORD; a kill before RECORD
\* leaves the ledger row, and the next non-forced run processes the manifest
\* again.
C24_InterruptedAttemptRedone ==
    /\ LedgerWrittenInRecordOnly
    /\ [][LookupAfterKill => pc' = "read"]_vars

\* C24 amended: the ledger is written only in RECORD; a kill before RECORD
\* leaves the ledger row, and the next non-forced run decides on that row: it
\* processes the manifest again unless the row is a 'success' with the
\* modification time the manifest has now, which is the case only when the
\* killed attempt was forced, had not reached the freshness test or had failed
\* to read the ledger.
C24_InterruptedAttemptDecidedByLedger ==
    /\ LedgerWrittenInRecordOnly
    /\ [][LookupAfterKill =>
              \A i \in Interruption :
                  LET fresh == /\ ~IsNone(i.row)
                               /\ TheVal(i.row).status = "success"
                               /\ Drift(TheVal(i.row)) < 1
                  IN  /\ LedgerRow = i.row
                      /\ ~fresh => pc' = "read"
                      /\ (fresh /\ ~IsNone(att'.processed)) =>
                             (pc' = "returned" /\ ret' = TRUE)
                      /\ fresh => \/ i.force
                                  \/ i.at \in { "probe", "lookup" }
                                  \/ IsNone(i.processed)]_vars

C24_Witness ==
    /\ pc = "read"
    /\ ~args.force
    /\ run = 2
    /\ log.consulted
    /\ \E i \in Interruption : i.at = "reconcile" /\ ~i.force /\ IsNone(i.row)
    /\ dest # ForeignObjects \cup EarlierObjects

(***************************************************************************)
(* C25: configuration errors.                                              *)
(***************************************************************************)
\* the command line of the run has a partition-path filter of another form
\* than BILLING_PERIOD=<value>
MalformedPath == run > 0 /\ ~IsNone(args.path) /\ ~StartsWith(TheVal(args.path), BP)

\* a required value of the environment is absent
EnvironIncomplete == IsNone(environ.PARQUET_BUCKET) \/ IsNone(environ.AWS_REGION)

\* the run has ended in the parser with status 2 and has listed no account
\* and no partition, and read, written or deleted no object
EndedInParser ==
    /\ pc = "idle"
    /\ exit_code = Some(2)
    /\ visited = << >>
    /\ listings = << >>
    /\ log = NoLog

\* no run has listed an account, or read, written or deleted an object
NothingProcessed ==
    /\ accounts = << >>
    /\ visited = << >>
    /\ listings = << >>
    /\ log = NoLog
    /\ dest = ForeignObjects
    /\ ledger = { }

\* C25: a run started with a malformed partition-path filter, or in an
\* environment that lacks the destination bucket name or the destination
\* region, ends before any account is listed or any object is read, written
\* or deleted.
C25_ConfigurationErrorsFatal ==
    /\ MalformedPath => EndedInParser
    /\ EnvironIncomplete => NothingProcessed

(***************************************************************************)
(* C28: reconciliation and the uploads of the same attempt.                *)
(***************************************************************************)
\* C28: for every source key of the manifest being processed, the file name of
\* the target key of its upload is the name at its place in the expected-files
\* list; the keys uploaded in the attempt have expected names, none of them is
\* deleted by the reconciliation of the attempt, and all of them are in the
\* destination store when the attempt records its outcome.
C28_ReconciliationKeepsUploads ==
    /\ pc \in { "file", "reconcile", "record" } =>
           /\ Len(att.expected_files) = Len(att.data_files)
           /\ \A i \in DOMAIN att.data_files :
                  LET target_key == get_target_key(account, report_type, att.data_files[i])
                  IN  ~IsNone(target_key) =>
                          FileName(TheVal(target_key)) = att.expected_files[i]
           /\ \A k \in log.uploaded : FileName(k) \in Range(att.expected_files)
    /\ log.deleted \cap log.uploaded = { }
    /\ pc = "record" => log.uploaded \subseteq dest

C28_Witness ==
    /\ pc = "record"
    /\ log.reconciled
    /\ log.uploaded # { }
    /\ log.deleted # { }
    /\ log.listed \ log.deleted # { }
    /\ log.uploaded \subseteq dest

(***************************************************************************)
(* C29: manifest rewrites during a run.                                    *)
(***************************************************************************)
\* the manifest object of the attempt as it is in the source store now
CurrentVersion == manifests[<< account.bucket, att.manifest_path >>]

\* the expected-files text a processing of the current version records
CurrentExpectedFiles ==
    LET manifest == read_manifest_file(manifests, account, att.manifest_path)
        data_files == IF IsNone(manifest) THEN << >>
                      ELSE get_data_files_from_manifest(TheVal(manifest).dataFiles)
    IN  expected_files_json([i \in DOMAIN data_files |->
                                generate_target_filename(data_files[i])])

\* the attempt has written its ledger row
RowWritten ==
    pc = "returned" /\ log.entered /\ ~IsNone(log.upsert) /\ TheVal(log.upsert).ok

\* the non-forced attempt was skipped by the freshness rule, and the manifest
\* has the modification time the rule compared
SkippedAsFresh ==
    /\ pc = "returned"
    /\ ~args.force
    /\ log.consulted
    /\ ~log.entered
    /\ ret = TRUE
    /\ ~IsNone(att.processed)
    /\ TheVal(att.processed).status = "success"
    /\ ~IsNone(CurrentVersion)
    /\ Some(TheVal(CurrentVersion).last_modified) = att.manifest_last_modified

\* the modification time the attempt stored is the one its probe observed and
\* is not later than the modification time of the content it read
StoredTimeNotLater ==
    RowWritten =>
        /\ TheVal(log.upsert).row.manifest_last_modified.secs
               = TheVal(att.manifest_last_modified).secs
        /\ ~IsNone(log.read)
        /\ TheVal(log.upsert).row.manifest_last_modified.secs
               <= TheVal(log.read).last_modified.secs

\* C29: the modification time an attempt stores in the ledger is the one its
\* metadata probe observed and is not later than the modification time of the
\* content it read; and a non-forced attempt is skipped as fresh only when the
\* version of the manifest in the store is the one the recorded attempt
\* processed, whatever rewrites were interleaved with the runs.
C29_NoMissedManifestUpdate ==
    /\ StoredTimeNotLater
    /\ SkippedAsFresh => TheVal(att.processed).expected_files = CurrentExpectedFiles


(***************************************************************************)
(* C30: what a 'success' record stands for.                                *)
(***************************************************************************)
\* the attempt has just written a ledger row with status 'success'
SuccessWritten == RowWritten /\ TheVal(log.upsert).row.status = "success"

\* C30: when an attempt has written a ledger row with status 'success', each
\* data file of the manifest was fetched and converted or passed through, its
\* put succeeded, and the destination store holds an object at its target key
\* when the attempt ends; the row written is the one the ledger holds.
C30_SuccessImpliesCompleteOutput ==
    SuccessWritten =>
        /\ LedgerRow = Some(TheVal(log.upsert).row)
        /\ att.data_files # << >>
        /\ Len(log.file_results) = Len(att.data_files)
        /\ log.puts = Len(att.data_files)
        /\ log.reconciled
        /\ \A i \in DOMAIN att.data_files :
               LET target_key == get_target_key(account, report_type, att.data_files[i])
               IN  /\ log.file_results[i]
                   /\ fetch_and_convert(account, att.data_files[i]) = "put"
                   /\ ~IsNone(target_key)
                   /\ TheVal(target_key) \in log.uploaded
                   /\ TheVal(target_key) \in dest

C30_Witness ==
    /\ SuccessWritten
    /\ att.data_files = << K1, K3 >>
    /\ log.conversions = 1
    /\ log.puts = 2
    /\ log.deleted # { }


=============================================================================
